---- MODULE Spec2Model ----
(***************************************************************************)
(* Client-side benchmark orchestration of bunvhd: measureFetch,            *)
(* runBenchmark and calculateAverages, in the two variants found in the    *)
(* repository:                                                             *)
(*   "parallel": src/src/routes/+page.svelte (and src/unnamed/part_001):   *)
(*               Promise.allSettled over all fetches of a round,           *)
(*               filter(runId >= 2) in calculateAverages;                  *)
(*   "serial":   src/src/app.d.ts: one awaited measureFetch at a time,     *)
(*               slice(1, RUN_COUNT) and best/worst markers.               *)
(*                                                                         *)
(* The server side follows the client: the dynamic route                   *)
(* src/src/routes/api/[endpoint]/+server.ts (and src/unnamed/part_003),    *)
(* the Bun REST API src/bun-restful-api.ts, and the closing of the         *)
(* postgres client in the handlers that open one.                          *)
(*                                                                         *)
(* JavaScript values are encoded as follows: a number | null field holds   *)
(* a natural number or NullNum; a string | null field holds a string or    *)
(* NullStr; an average (a quotient of two numbers) is the reduced fraction *)
(* <<numerator, denominator>>, or NullAvg for null.                        *)
(***************************************************************************)
EXTENDS Integers, Sequences, FiniteSets, TLC

VARIABLES
    variant,        \* which variant of the page runs: "parallel" or "serial"
    benchmarkRuns,  \* $state<RunResult[]>
    isLoading,      \* $state(false)
    overallError,   \* $state<string | null>
    averageResults, \* $state<Record<EndpointId, AverageResult>>
    markers,        \* bestAvgClientTime .. worstAvgServerTime (serial variant)
    acts,           \* the live activations of the async function runBenchmark
    issued,         \* history: measureFetch calls per <<runId, endpoint id>>
    returned,       \* history: what the last measureFetch of <<runId, id>> returned
    fetchIn,        \* SpecFetch: the outcome of the HTTP call handed to measureFetch
    fetchOut,       \* SpecFetch: what measureFetch did with it
    aggRuns,        \* SpecAgg: a completed RunRecord sequence
    aggOut,         \* SpecAgg: what calculateAverages computed from it
    arrays,         \* SpecShuffle: the array objects, by reference
    shuffledRef,    \* SpecShuffle: the array shuffleArray returned, "none" before
    randomIndices,  \* SpecShuffle: the randomIndex drawn at each currentIndex
    request,        \* server specifications: the request a handler is invoked with
    response,       \* server specifications: what the handler answered
    handler         \* SpecClose: the invocation of a handler, its locals and its await

orchVars == <<benchmarkRuns, isLoading, overallError, averageResults, markers,
              acts, issued, returned>>
fetchVars == <<fetchIn, fetchOut>>
aggVars == <<aggRuns, aggOut>>
shuffleVars == <<arrays, shuffledRef, randomIndices>>
serverVars == <<request, response, handler>>
vars == <<variant, orchVars, fetchVars, aggVars, shuffleVars, serverVars>>

----------------------------------------------------------------------------
(* Bounds of the model *)

\* number of registered endpoints (the registry of +page.svelte has 4, that of
\* app.d.ts 12)
NumEndpoints == 2

\* the arrays handed to shuffleArray in SpecShuffle have up to MaxShuffle
\* elements
MaxShuffle == 4

\* how often calculateAverages is called on one sequence in SpecAgg
MaxCalls == 2

\* how many activations of runBenchmark may be alive at once before the model
\* stops accepting clicks
MaxActivations == 2

\* elapsed times handed to measureFetch in SpecFetch range over 1..MaxElapsed
MaxElapsed == 2

(* Program constants *)

RUN_COUNT == 3

----------------------------------------------------------------------------
(* Encoding of null *)

NullNum == 0 - 1
NullStr == "<null>"
NullAvg == <<>>

IsNumber(x) == x # NullNum

\* no request was received, no response sent, no handler invoked
Idle == [kind |-> "none"]

Variants == {"parallel", "serial"}

\* The endpoint registry, reduced to the ids.
EndpointNames == <<"A", "B", "C", "D">>
ENDPOINTS == [k \in 1..NumEndpoints |-> EndpointNames[k]]
EndpointIds == {ENDPOINTS[k] : k \in 1..Len(ENDPOINTS)}

\* { clientTime: null, serverTime: null, binding: "Pending...", error: null }
PendingResult ==
    [clientTime |-> NullNum, serverTime |-> NullNum,
     binding |-> "Pending...", error |-> NullStr]

\* Object.fromEntries(ENDPOINTS.map(ep => [ep.id, {avgClientTime: null, avgServerTime: null}]))
initialAverageResults ==
    [id \in EndpointIds |-> [avgClientTime |-> NullAvg, avgServerTime |-> NullAvg]]

NoMarkers ==
    [bestAvgClientTime |-> NullAvg, worstAvgClientTime |-> NullAvg,
     bestAvgServerTime |-> NullAvg, worstAvgServerTime |-> NullAvg]

----------------------------------------------------------------------------
(* shuffleArray: the loop runs currentIndex from array.length down to 1;   *)
(* draws[currentIndex] is Math.floor(Math.random() * currentIndex), a      *)
(* 0-based index below currentIndex.                                       *)

\* Faulty variant of the draws: Math.floor(Math.random() * array.length) at
\* every step.
RandomDrawsFullRange(n) == [1..n -> 0..(n - 1)]

RandomDraws(n) == {d \in [1..n -> 0..(n - 1)] : \A k \in 1..n : d[k] < k}

Swap(array, p, q) ==
    [k \in 1..Len(array) |->
        IF k = p THEN array[q] ELSE IF k = q THEN array[p] ELSE array[k]]

RECURSIVE ShuffleFrom(_, _, _)
ShuffleFrom(array, currentIndex, draws) ==
    IF currentIndex = 0 THEN array
    ELSE LET randomIndex == draws[currentIndex]
         IN  ShuffleFrom(Swap(array, currentIndex, randomIndex + 1),
                         currentIndex - 1, draws)

\* Faulty variant of the shuffle: the element drawn is copied, not swapped.
RECURSIVE CopyFrom(_, _, _)
CopyFrom(array, currentIndex, draws) ==
    IF currentIndex = 0 THEN array
    ELSE CopyFrom([array EXCEPT ![currentIndex] = array[draws[currentIndex] + 1]],
                  currentIndex - 1, draws)

shuffleArrayCopying(array, draws) == CopyFrom(array, Len(array), draws)

shuffleArray(array, draws) == ShuffleFrom(array, Len(array), draws)

(* shuffleArray works in place and returns its argument, and runBenchmark  *)
(* hands it [...ENDPOINTS].  Array objects are cells of a store: the cell   *)
(* "ENDPOINTS" is the registry, the cell "copy" the array of the spread.    *)

ArraysOf(registry) == [ref \in {"ENDPOINTS", "copy"} |->
                          IF ref = "ENDPOINTS" THEN registry ELSE <<>>]

\* Faulty variant of the spread: the array itself is handed on.
SpreadAlias(store, ref) == [arrays |-> store, ref |-> ref]

\* [...array]: a new array object with the elements of the array at ref
SpreadCopy(store, ref) ==
    [arrays |-> [store EXCEPT !["copy"] = store[ref]], ref |-> "copy"]

\* shuffleArray(array) on the array object at ref: the object is shuffled in
\* place and its reference is returned
shuffleArrayAt(store, ref, draws) ==
    [arrays |-> [store EXCEPT ![ref] = shuffleArray(store[ref], draws)], ref |-> ref]

----------------------------------------------------------------------------
(* measureFetch.  The outcome of the HTTP call is a record                 *)
(*   kind      "reject"   fetch() rejected (network error)                 *)
(*             "http"     a response with !response.ok                     *)
(*             "badjson"  response.json() rejected                         *)
(*             "jsonnull" the body is the JSON literal null                *)
(*             "json"     the body is a JSON object                        *)
(*   headersAt performance.now() - startTime when the headers arrive       *)
(*   caughtAt  performance.now() - startTime when the catch block runs     *)
(*   message   the message of the error fetch() rejected with              *)
(*   timeMs    body.timeMs when it is a number, else NullNum               *)
(*   binding   body.binding when it is a string, else NullStr              *)
(*   error     body.error, NullStr when it is missing or null              *)

Outcome(kind, headersAt, caughtAt, message, timeMs, binding, error) ==
    [kind |-> kind, headersAt |-> headersAt, caughtAt |-> caughtAt,
     message |-> message, timeMs |-> timeMs, binding |-> binding,
     error |-> error]

Fulfilled(result) == [settled |-> "fulfilled", value |-> result, reason |-> ""]
Rejected(reason) == [settled |-> "rejected", value |-> PendingResult, reason |-> reason]

Threw(message) == [threw |-> TRUE, message |-> message, result |-> PendingResult]
Returned(result) == [threw |-> FALSE, message |-> "", result |-> result]

\* `HTTP ${response.status} ${response.statusText}: ${errorText.substring(0, 200)}`
\* errorText.substring(0, 200)
ErrorTextLimit == 200

\* A text is the sequence of its characters; Join makes the string of it.
RECURSIVE JoinRange(_, _, _)
JoinRange(text, from, to) ==
    IF from > to THEN ""
    ELSE IF from = to THEN text[from]
    ELSE LET middle == (from + to) \div 2
         IN  JoinRange(text, from, middle) \o JoinRange(text, middle + 1, to)

Join(text) == JoinRange(text, 1, Len(text))

\* text.substring(0, end)
Substring(text, end) == SubSeq(text, 1, IF Len(text) < end THEN Len(text) ELSE end)

\* .catch(() => "Could not read error body")
CouldNotReadErrorBody ==
    <<"C", "o", "u", "l", "d", " ", "n", "o", "t", " ", "r", "e", "a", "d", " ",
      "e", "r", "r", "o", "r", " ", "b", "o", "d", "y">>

\* await response.text().catch(...)
ErrorText(o) == IF o.bodyReadable THEN o.body ELSE CouldNotReadErrorBody

\* Faulty variant of the message: the text of the body is not cut.
HttpErrorMessageUncut(o) ==
    "HTTP " \o ToString(o.status) \o " " \o o.statusText \o ": " \o Join(ErrorText(o))

HttpErrorMessage(o) ==
    "HTTP " \o ToString(o.status) \o " " \o o.statusText \o ": "
        \o Join(Substring(ErrorText(o), ErrorTextLimit))

\* x || y on strings: the empty string is falsy
OrElse(x, y) == IF x # "" /\ x # NullStr THEN x ELSE y

\* !jsonResult.error
NoBodyError(o) == o.error = NullStr \/ o.error = ""

\* typeof jsonResult?.timeMs !== "number" || typeof jsonResult?.binding !== "string"
LacksField(o) == ~IsNumber(o.timeMs) \/ o.binding = NullStr

\* Faulty variant of the structural check: an error in the body excuses
\* nothing in either variant.
FailsValidationStrict(v, o) == LacksField(o)

\* the structural check of the variant
FailsValidation(v, o) ==
    IF v = "parallel" THEN LacksField(o)
    ELSE NoBodyError(o) /\ LacksField(o)

\* Faulty variant of the try block: the error of the body is not passed on.
TryBlockDroppingBodyError(v, o) ==
    CASE o.kind = "reject" -> Threw(o.message)
      [] o.kind = "http" -> Threw(HttpErrorMessage(o))
      [] o.kind = "badjson" -> Threw("Invalid JSON response received.")
      [] o.kind = "jsonnull" -> Threw("Invalid response structure (missing timeMs or binding).")
      [] OTHER ->
            IF FailsValidation(v, o)
            THEN Threw("Invalid response structure (missing timeMs or binding).")
            ELSE Returned(
                   [clientTime |-> o.headersAt, serverTime |-> o.timeMs,
                    binding |-> o.binding, error |-> NullStr])

\* the try block
TryBlock(v, o) ==
    CASE o.kind = "reject" -> Threw(o.message)
      [] o.kind = "http" -> Threw(HttpErrorMessage(o))
      [] o.kind = "badjson" -> Threw("Invalid JSON response received.")
      [] o.kind = "jsonnull" ->
            IF v = "parallel"
            THEN Threw("Invalid response structure (missing timeMs or binding).")
            ELSE Threw("Cannot read properties of null (reading 'error')")
      [] OTHER ->
            IF FailsValidation(v, o)
            THEN Threw("Invalid response structure (missing timeMs or binding).")
            ELSE Returned(
                   [clientTime |-> o.headersAt,
                    serverTime |-> o.timeMs,
                    binding |-> IF v = "serial" /\ o.binding = NullStr
                                THEN "Unknown" ELSE o.binding,
                    error |-> o.error])

\* Faulty variant of the catch block: the error is thrown on to the caller.
CatchBlockRethrows(v, o, message) == Rejected(message)

\* Faulty variant of the catch block: the message is taken as it is.
CatchBlockWithoutDefault(v, o, message) ==
    Fulfilled([clientTime |-> o.caughtAt,
               serverTime |-> NullNum,
               binding |-> IF v = "parallel" THEN "Error" ELSE "Fetch Error",
               error |-> message])

\* the catch block
CatchBlock(v, o, message) ==
    Fulfilled([clientTime |-> o.caughtAt,
               serverTime |-> NullNum,
               binding |-> IF v = "parallel" THEN "Error" ELSE "Fetch Error",
               error |-> OrElse(message, "Unknown fetch error")])

measureFetch(v, o) ==
    LET t == TryBlock(v, o)
    IN  IF t.threw THEN CatchBlock(v, o, t.message) ELSE Fulfilled(t.result)

\* The outcomes of the HTTP call that SpecFetch draws from.
Elapsed == {<<h, c>> \in (1..MaxElapsed) \X (1..MaxElapsed) : h <= c}

\* A response with !response.ok: its status line, the text of its body (or
\* a body that cannot be read), and what the body would hold as JSON.
HttpOutcome(headersAt, caughtAt, statusLine, body, json) ==
    [kind |-> "http", headersAt |-> headersAt, caughtAt |-> caughtAt,
     message |-> "", timeMs |-> json[1], binding |-> json[2], error |-> json[3],
     status |-> statusLine[1], statusText |-> statusLine[2],
     bodyReadable |-> body[1], body |-> body[2]]

HttpStatuses == {<<404, "Not Found">>, <<500, "Internal Server Error">>, <<503, "">>}

\* a text of n characters
TextOfLength(n) == [k \in 1..n |-> ToString(k % 10)]

\* an unreadable body, and bodies without text, with a short text, and with
\* texts at and beyond the limit of the message
ErrorBodies ==
    {<<FALSE, <<>>>>}
    \cup {<<TRUE, TextOfLength(n)>> :
            n \in {0, 4, ErrorTextLimit, ErrorTextLimit + 1, ErrorTextLimit + 50}}

\* the error bodies of the servers as JSON: { error } alone, or a complete
\* QueryResponse
ErrorJson == {<<NullNum, NullStr, "db failed">>, <<8, "db", "db failed">>}

AllOutcomes ==
    {Outcome("reject", NullNum, c, m, NullNum, NullStr, NullStr) :
        c \in 1..MaxElapsed, m \in {"Failed to fetch", ""}}
    \cup {HttpOutcome(t[1], t[2], st, body, j) :
        t \in Elapsed, st \in HttpStatuses, body \in ErrorBodies, j \in ErrorJson}
    \cup {Outcome(k, t[1], t[2], "", NullNum, NullStr, NullStr) :
        k \in {"badjson", "jsonnull"}, t \in Elapsed}
    \cup {Outcome("json", t[1], t[2], "", b[1], b[2], b[3]) :
        t \in Elapsed,
        b \in {NullNum, 8} \X {NullStr, "db"} \X {NullStr, "", "db failed"}}

\* The three outcomes the orchestration model draws from: a clean success, a
\* network failure, and a 200 whose body reports a database error.
OrchOutcomes ==
    {Outcome("json", 40, 41, "", 8, "db", NullStr),
     Outcome("reject", NullNum, 200, "Failed to fetch", NullNum, NullStr, NullStr),
     Outcome("json", 70, 71, "", 6, "db", "db failed")}

NoFetch == [settled |-> "none", value |-> PendingResult, reason |-> ""]

----------------------------------------------------------------------------
(* calculateAverages *)

RECURSIVE GCD(_, _)
GCD(a, b) == IF b = 0 THEN a ELSE GCD(b, a % b)

\* total / count as a reduced fraction (count > 0)
Quotient(total, count) ==
    LET g == GCD(total, count)
    IN  <<total \div g, count \div g>>

\* a < b on fractions with positive denominators
Less(a, b) == a[1] * b[2] < b[1] * a[2]

\* Faulty variant of the filter: the warm-up round is kept.
FilterFromFirst(runs) == SelectSeq(runs, LAMBDA run : run.runId >= 1)

\* benchmarkRuns.filter((run) => run.runId >= 2)
FilterRelevant(runs) == SelectSeq(runs, LAMBDA run : run.runId >= 2)

\* benchmarkRuns.slice(1, RUN_COUNT)
SliceRelevant(runs) ==
    SubSeq(runs, 2, IF Len(runs) < RUN_COUNT THEN Len(runs) ELSE RUN_COUNT)

relevantRuns(v, runs) ==
    IF v = "parallel" THEN FilterRelevant(runs) ELSE SliceRelevant(runs)

ZeroTotals ==
    [totalClientTime |-> 0, validClientCount |-> 0,
     totalServerTime |-> 0, validServerCount |-> 0]

\* Faulty variant of the test: a result with an error counts too.
CountsIgnoringError(run, id) == id \in DOMAIN run.results

\* result && result.error === null
Counts(run, id) == id \in DOMAIN run.results /\ run.results[id].error = NullStr

\* Faulty variant of the loop body: one sample count serves both metrics.
AddRunSharedCount(t, run, id) ==
    IF ~Counts(run, id) THEN t
    ELSE LET result == run.results[id]
             c == IsNumber(result.clientTime)
             s == IsNumber(result.serverTime)
         IN  [totalClientTime |-> t.totalClientTime + (IF c THEN result.clientTime ELSE 0),
              validClientCount |-> t.validClientCount + (IF c THEN 1 ELSE 0),
              totalServerTime |-> t.totalServerTime + (IF s THEN result.serverTime ELSE 0),
              validServerCount |-> t.validServerCount + (IF c THEN 1 ELSE 0)]

\* one pass of `for (const run of relevantRuns)` for the endpoint id
AddRun(t, run, id) ==
    IF ~Counts(run, id) THEN t
    ELSE LET result == run.results[id]
             c == IsNumber(result.clientTime)
             s == IsNumber(result.serverTime)
         IN  [totalClientTime |-> t.totalClientTime + (IF c THEN result.clientTime ELSE 0),
              validClientCount |-> t.validClientCount + (IF c THEN 1 ELSE 0),
              totalServerTime |-> t.totalServerTime + (IF s THEN result.serverTime ELSE 0),
              validServerCount |-> t.validServerCount + (IF s THEN 1 ELSE 0)]

\* the totals after the first k of the relevant runs (the set binds the
\* totals of the runs before, which are then computed once)
RECURSIVE Totals(_, _, _)
Totals(relevant, id, k) ==
    IF k = 0 THEN ZeroTotals
    ELSE CHOOSE t \in {AddRun(before, relevant[k], id) :
                          before \in {Totals(relevant, id, k - 1)}} : TRUE

\* newAverages[endpoint.id] = { avgClientTime: ..., avgServerTime: ... }
AverageOf(relevant, id) ==
    CHOOSE average \in
        {[avgClientTime |->
            IF t.validClientCount > 0
            THEN Quotient(t.totalClientTime, t.validClientCount) ELSE NullAvg,
          avgServerTime |->
            IF t.validServerCount > 0
            THEN Quotient(t.totalServerTime, t.validServerCount) ELSE NullAvg] :
            t \in {Totals(relevant, id, Len(relevant))}} : TRUE

\* Faulty variant of the minimum: the first average that is not null stays.
MinWithFirst(min, avg) ==
    IF avg = NullAvg THEN min
    ELSE IF min = NullAvg THEN avg ELSE min

\* if (avg !== null) { if (min === null || avg < min) min = avg; ... }
MinWith(min, avg) ==
    IF avg = NullAvg THEN min
    ELSE IF min = NullAvg \/ Less(avg, min) THEN avg ELSE min

MaxWith(max, avg) ==
    IF avg = NullAvg THEN max
    ELSE IF max = NullAvg \/ Less(max, avg) THEN avg ELSE max

\* the min/max bookkeeping of `for (const endpoint of ENDPOINTS)`, up to the
\* k-th endpoint
RECURSIVE MarkersUpTo(_, _, _)
MarkersUpTo(newAverages, eps, k) ==
    IF k = 0 THEN NoMarkers
    ELSE CHOOSE markersNow \in
            {[bestAvgClientTime |-> MinWith(m.bestAvgClientTime, a.avgClientTime),
              worstAvgClientTime |-> MaxWith(m.worstAvgClientTime, a.avgClientTime),
              bestAvgServerTime |-> MinWith(m.bestAvgServerTime, a.avgServerTime),
              worstAvgServerTime |-> MaxWith(m.worstAvgServerTime, a.avgServerTime)] :
                m \in {MarkersUpTo(newAverages, eps, k - 1)},
                a \in {newAverages[eps[k]]}} : TRUE

\* Faulty variant of calculateAverages: a new average is added to the one
\* averageResults holds.
SumOfAverages(old, new) ==
    IF old = NullAvg THEN new
    ELSE IF new = NullAvg THEN old
    ELSE Quotient(old[1] * new[2] + new[1] * old[2], old[2] * new[2])

calculateAveragesOverAdding(v, eps, runs, avgs, marks) ==
    IF Len(runs) < RUN_COUNT THEN [averageResults |-> avgs, markers |-> marks]
    ELSE LET relevant == relevantRuns(v, runs)
             newAverages ==
                 [id \in {eps[k] : k \in 1..Len(eps)} |->
                     [avgClientTime |-> SumOfAverages(avgs[id].avgClientTime,
                                           AverageOf(relevant, id).avgClientTime),
                      avgServerTime |-> SumOfAverages(avgs[id].avgServerTime,
                                           AverageOf(relevant, id).avgServerTime)]]
         IN  [averageResults |-> newAverages,
              markers |-> IF v = "serial"
                          THEN MarkersUpTo(newAverages, eps, Len(eps))
                          ELSE marks]

\* Faulty variant of calculateAverages: the test of benchmarkRuns.length is
\* missing.
calculateAveragesOverUnguarded(v, eps, runs, avgs, marks) ==
    LET relevant == relevantRuns(v, runs)
    IN  IF Len(relevant) = 0 THEN [averageResults |-> avgs, markers |-> marks]
        ELSE LET newAverages ==
                     [id \in {eps[k] : k \in 1..Len(eps)} |-> AverageOf(relevant, id)]
             IN  [averageResults |-> newAverages,
                  markers |-> IF v = "serial"
                              THEN MarkersUpTo(newAverages, eps, Len(eps))
                              ELSE marks]

\* calculateAverages over the registry eps: the new values of averageResults
\* and of the markers, given their current values avgs and marks.  The
\* locals relevantRuns and newAverages are bound as elements of one-element
\* sets, which hold their values computed once.
calculateAveragesOver(v, eps, runs, avgs, marks) ==
    IF Len(runs) < RUN_COUNT THEN [averageResults |-> avgs, markers |-> marks]
    ELSE CHOOSE out \in
            {IF Len(relevant) = 0 THEN [averageResults |-> avgs, markers |-> marks]
             ELSE CHOOSE new \in
                    {[averageResults |-> newAverages,
                      markers |-> IF v = "serial"
                                  THEN MarkersUpTo(newAverages, eps, Len(eps))
                                  ELSE marks] :
                        newAverages \in
                            {[id \in {eps[k] : k \in 1..Len(eps)} |->
                                AverageOf(relevant, id)]}} : TRUE :
                relevant \in {relevantRuns(v, runs)}} : TRUE

calculateAverages(v, runs, avgs, marks) ==
    calculateAveragesOver(v, ENDPOINTS, runs, avgs, marks)

----------------------------------------------------------------------------
(* runBenchmark.  An activation of the async function is a record of its   *)
(* locals and of the await it is suspended at:                             *)
(*   pc  "allSettled"  await Promise.allSettled(fetchPromises)  (parallel) *)
(*       "fetch"       await measureFetch(endpoint.url)         (serial)   *)
(*       "tween"       await progress.set(...)                             *)
(*       "delay"       await delay(DELAY_BETWEEN_RUNS_MS)                  *)
(*       "finalTween"  await progress.set(100)                  (serial)   *)
(*   i, j are the loop counters (j is 1-based here).                       *)
(* An action runs an activation from one await to the next.                *)

Keys == (1..RUN_COUNT) \X EndpointIds

NoneIssued == [key \in Keys |-> 0]
NoneReturned == [key \in Keys |-> NoFetch]

PendingPromise(id) ==
    [settled |-> "pending", id |-> id, value |-> PendingResult, reason |-> ""]

\* measureFetch(endpoint.url).then((result) => ({ id: endpoint.id, result }))
ThenWithId(id, m) ==
    [settled |-> m.settled, id |-> id, value |-> m.value, reason |-> m.reason]

RemoveAt(seq, a) == [k \in 1..(Len(seq) - 1) |-> IF k < a THEN seq[k] ELSE seq[k + 1]]

\* the placeholder results: ENDPOINTS.forEach((ep) => { results[ep.id] = {...} })
Placeholders == [id \in EndpointIds |-> PendingResult]

\* Faulty variant of the replacement: the loop index is taken for the run id.
ReplaceResultsOffByOne(runs, currentRunId, results) ==
    [k \in 1..Len(runs) |->
        IF runs[k].runId = currentRunId - 1
        THEN [runId |-> runs[k].runId, results |-> results]
        ELSE runs[k]]

\* Faulty variant of the replacement: the test of the run id is missing.
ReplaceResultsEverywhere(runs, currentRunId, results) ==
    [k \in 1..Len(runs) |-> [runId |-> runs[k].runId, results |-> results]]

\* benchmarkRuns.map((run) => run.runId === currentRunId ? {...run, results} : run)
ReplaceResults(runs, currentRunId, results) ==
    [k \in 1..Len(runs) |->
        IF runs[k].runId = currentRunId
        THEN [runId |-> runs[k].runId, results |-> results]
        ELSE runs[k]]

\* Faulty variant of the entry update: the spread of run.results is missing.
ReplaceEntryDroppingOthers(runs, currentRunId, id, result) ==
    [k \in 1..Len(runs) |->
        IF runs[k].runId = currentRunId
        THEN [runId |-> runs[k].runId, results |-> (id :> result)]
        ELSE runs[k]]

\* ... ? { ...run, results: { ...run.results, [endpoint.id]: result } } : run
ReplaceEntry(runs, currentRunId, id, result) ==
    [k \in 1..Len(runs) |->
        IF runs[k].runId = currentRunId
        THEN [runId |-> runs[k].runId, results |-> (id :> result) @@ runs[k].results]
        ELSE runs[k]]

\* benchmarkRuns = [...benchmarkRuns, { runId: currentRunId, results }]
Publish(v, runs, currentRunId) ==
    IF v = "serial" /\ \E k \in 1..Len(runs) : runs[k].runId = currentRunId
    THEN runs
    ELSE Append(runs, [runId |-> currentRunId, results |-> Placeholders])

\* the measureFetch calls made for the endpoints ids (a sequence) in round r
CountCalls(counts, r, ids) ==
    [key \in Keys |->
        counts[key] + Cardinality({k \in 1..Len(ids) : key = <<r, ids[k]>>})]

\* Faulty variant of the result processing: the index is looked up in the
\* registry, not in the shuffled order, and the id of the value is ignored.
RECURSIVE finalRunResultsByRegistryOrder(_, _, _)
finalRunResultsByRegistryOrder(settledResults, shuffledEndpoints, k) ==
    IF k = 0 THEN <<>>
    ELSE (ENDPOINTS[k] :> settledResults[k].value)
            @@ finalRunResultsByRegistryOrder(settledResults, shuffledEndpoints, k - 1)

\* The results settledResults.forEach(...) builds from the first k promises.
RECURSIVE finalRunResults(_, _, _)
finalRunResults(settledResults, shuffledEndpoints, k) ==
    IF k = 0 THEN <<>>
    ELSE LET settledResult == settledResults[k]
             rest == finalRunResults(settledResults, shuffledEndpoints, k - 1)
         IN  IF settledResult.settled = "fulfilled"
             THEN (settledResult.id :> settledResult.value) @@ rest
             ELSE (shuffledEndpoints[k] :>
                     [clientTime |-> NullNum, serverTime |-> NullNum,
                      binding |-> "Fatal Error",
                      error |-> IF settledResult.reason = NullStr
                                THEN "Unknown settled rejection"
                                ELSE settledResult.reason]) @@ rest

\* The activation as it suspends after starting round i + 1 with the order
\* shuffledEndpoints.
RoundStarted(v, i, shuffledEndpoints) ==
    [pc |-> IF v = "parallel" THEN "allSettled" ELSE "fetch",
     i |-> i,
     shuffledEndpoints |-> shuffledEndpoints,
     fetchPromises |->
        IF v = "parallel"
        THEN [k \in 1..Len(shuffledEndpoints) |-> PendingPromise(shuffledEndpoints[k])]
        ELSE <<>>,
     j |-> 1,
     currentRunResults |-> <<>>]

\* The activation suspended at an await outside the measurements of a round;
\* the locals of the round's iteration are out of use there and are dropped.
Suspended(pc, i) ==
    [pc |-> pc, i |-> i, shuffledEndpoints |-> <<>>, fetchPromises |-> <<>>,
     j |-> 1, currentRunResults |-> <<>>]

\* Faulty variant of the first calls: the serial variant too calls
\* measureFetch for every endpoint when the round starts.
FirstCallsAll(v, shuffledEndpoints) == shuffledEndpoints

\* The endpoints whose measureFetch is called when round i + 1 starts.
FirstCalls(v, shuffledEndpoints) ==
    IF v = "parallel" THEN shuffledEndpoints ELSE SubSeq(shuffledEndpoints, 1, 1)

\* Faulty variant of the button: the disabled attribute is missing.
ButtonAlwaysEnabled == TRUE

\* disabled={isLoading}
ButtonEnabled == ~isLoading

\* Faulty variant of the finally block: the averages are calculated after a
\* fatal error too.
FinallyParallelIgnoringError(runs, error) ==
    calculateAverages("parallel", runs, averageResults, markers)

\* The finally block of the parallel variant: isLoading = false;
\* if (!overallError) calculateAverages().
FinallyParallel(runs, error) ==
    IF error = NullStr \/ error = ""
    THEN calculateAverages("parallel", runs, averageResults, markers)
    ELSE [averageResults |-> averageResults, markers |-> markers]

Init ==
    /\ variant \in Variants
    /\ benchmarkRuns = <<>>
    /\ isLoading = FALSE
    /\ overallError = NullStr
    /\ averageResults = initialAverageResults
    /\ markers = NoMarkers
    /\ acts = <<>>
    /\ issued = NoneIssued
    /\ returned = NoneReturned
    /\ fetchIn = Outcome("reject", NullNum, 1, "", NullNum, NullStr, NullStr)
    /\ fetchOut = NoFetch
    /\ aggRuns = <<>>
    /\ aggOut = <<>>
    /\ arrays = ArraysOf(ENDPOINTS)
    /\ shuffledRef = "none"
    /\ randomIndices = <<>>
    /\ request = Idle
    /\ response = Idle
    /\ handler = Idle

\* Faulty variant of the reset: the averages and the markers of the earlier
\* run stay.
ResetStateKeepingAverages ==
    [overallError |-> NullStr, benchmarkRuns |-> <<>>,
     averageResults |-> averageResults, markers |-> markers]

\* overallError = null; benchmarkRuns = [];
\* averageResults = { ...initialAverageResults };
\* bestAvgClientTime = null; ... worstAvgServerTime = null;
ResetState ==
    [overallError |-> NullStr, benchmarkRuns |-> <<>>,
     averageResults |-> initialAverageResults, markers |-> NoMarkers]

\* The click on the Run button: runBenchmark up to its first await.
ClickRun ==
    /\ ButtonEnabled
    /\ Len(acts) < MaxActivations
    /\ \E draws \in RandomDraws(Len(ENDPOINTS)) :
        LET shuffledEndpoints == shuffleArray(ENDPOINTS, draws)
            reset == ResetState
        IN  /\ isLoading' = TRUE
            /\ overallError' = reset.overallError
            /\ benchmarkRuns' = Publish(variant, reset.benchmarkRuns, 1)
            /\ averageResults' = reset.averageResults
            /\ markers' = reset.markers
            /\ acts' = Append(acts, RoundStarted(variant, 0, shuffledEndpoints))
            /\ issued' = CountCalls(NoneIssued, 1, FirstCalls(variant, shuffledEndpoints))
            /\ returned' = NoneReturned
    /\ UNCHANGED <<variant, fetchVars, aggVars, shuffleVars, serverVars>>

\* The timer of delay(DELAY_BETWEEN_RUNS_MS) fires: the next round starts.
DelayDone(a) ==
    /\ acts[a].pc = "delay"
    /\ \E draws \in RandomDraws(Len(ENDPOINTS)) :
        LET shuffledEndpoints == shuffleArray(ENDPOINTS, draws)
            currentRunId == acts[a].i + 1
        IN  /\ benchmarkRuns' = Publish(variant, benchmarkRuns, currentRunId)
            /\ acts' = [acts EXCEPT ![a] = RoundStarted(variant, acts[a].i, shuffledEndpoints)]
            /\ issued' = CountCalls(issued, currentRunId, FirstCalls(variant, shuffledEndpoints))
    /\ UNCHANGED <<variant, isLoading, overallError, averageResults, markers,
                   returned, fetchVars, aggVars, shuffleVars, serverVars>>

\* Variant of FetchSettlesParallel that writes each result into the published
\* record as soon as its measureFetch resolves.
FetchSettlesParallelEager(a, k, o) ==
    /\ variant = "parallel"
    /\ acts[a].pc = "allSettled"
    /\ k \in 1..Len(acts[a].fetchPromises)
    /\ acts[a].fetchPromises[k].settled = "pending"
    /\ LET act == acts[a]
           currentRunId == act.i + 1
           id == act.shuffledEndpoints[k]
           m == measureFetch("parallel", o)
           settledResults == [act.fetchPromises EXCEPT ![k] = ThenWithId(id, m)]
           allSettled == \A n \in 1..Len(settledResults) :
                            settledResults[n].settled # "pending"
       IN  /\ returned' = [returned EXCEPT ![<<currentRunId, id>>] = m]
           /\ IF allSettled
              THEN /\ benchmarkRuns' =
                        ReplaceResults(benchmarkRuns, currentRunId,
                            finalRunResults(settledResults, act.shuffledEndpoints,
                                            Len(settledResults)))
                   /\ acts' = [acts EXCEPT ![a] = Suspended("tween", act.i)]
              ELSE /\ benchmarkRuns' = ReplaceEntry(benchmarkRuns, currentRunId, id, m.value)
                   /\ acts' = [acts EXCEPT ![a].fetchPromises = settledResults]
    /\ UNCHANGED <<variant, isLoading, overallError, averageResults, markers,
                   issued, fetchVars, aggVars, shuffleVars, serverVars>>

\* Parallel variant: the fetch of the k-th promise settles and measureFetch
\* runs to its end.  When it was the last one pending, Promise.allSettled
\* resolves and runBenchmark goes on to await progress.set(...).
FetchSettlesParallel(a, k, o) ==
    /\ variant = "parallel"
    /\ acts[a].pc = "allSettled"
    /\ k \in 1..Len(acts[a].fetchPromises)
    /\ acts[a].fetchPromises[k].settled = "pending"
    /\ LET act == acts[a]
           currentRunId == act.i + 1
           id == act.shuffledEndpoints[k]
           m == measureFetch("parallel", o)
           settledResults == [act.fetchPromises EXCEPT ![k] = ThenWithId(id, m)]
           allSettled == \A n \in 1..Len(settledResults) :
                            settledResults[n].settled # "pending"
       IN  /\ returned' = [returned EXCEPT ![<<currentRunId, id>>] = m]
           /\ IF allSettled
              THEN /\ benchmarkRuns' =
                        ReplaceResults(benchmarkRuns, currentRunId,
                            finalRunResults(settledResults, act.shuffledEndpoints,
                                            Len(settledResults)))
                   /\ acts' = [acts EXCEPT ![a] = Suspended("tween", act.i)]
              ELSE /\ benchmarkRuns' = benchmarkRuns
                   /\ acts' = [acts EXCEPT ![a].fetchPromises = settledResults]
    /\ UNCHANGED <<variant, isLoading, overallError, averageResults, markers,
                   issued, fetchVars, aggVars, shuffleVars, serverVars>>

\* Parallel variant: progress.set(...) resolves; the loop goes on, or ends in
\* the finally block.
TweenDoneParallel(a) ==
    /\ variant = "parallel"
    /\ acts[a].pc = "tween"
    /\ IF acts[a].i + 1 < RUN_COUNT
       THEN /\ acts' = [acts EXCEPT ![a].i = @ + 1, ![a].pc = "delay"]
            /\ UNCHANGED <<isLoading, averageResults, markers>>
       ELSE LET new == FinallyParallel(benchmarkRuns, overallError)
            IN  /\ isLoading' = FALSE
                /\ averageResults' = new.averageResults
                /\ markers' = new.markers
                /\ acts' = RemoveAt(acts, a)
    /\ UNCHANGED <<variant, benchmarkRuns, overallError, issued, returned,
                   fetchVars, aggVars, shuffleVars, serverVars>>


\* Serial variant: the awaited measureFetch of shuffledEndpoints[j] settles.
\* A result is recorded and published under its endpoint id, and runBenchmark
\* awaits progress.set(...); a rejection is thrown into the catch block, and
\* the finally block ends the run.
FetchSettlesSerial(a, o) ==
    /\ variant = "serial"
    /\ acts[a].pc = "fetch"
    /\ LET act == acts[a]
           currentRunId == act.i + 1
           id == act.shuffledEndpoints[act.j]
           m == measureFetch("serial", o)
       IN  /\ returned' = [returned EXCEPT ![<<currentRunId, id>>] = m]
           /\ IF m.settled = "fulfilled"
              THEN /\ benchmarkRuns' = ReplaceEntry(benchmarkRuns, currentRunId, id, m.value)
                   /\ acts' = [acts EXCEPT
                                 ![a].currentRunResults = (id :> m.value) @@ @,
                                 ![a].pc = "tween"]
                   /\ UNCHANGED <<isLoading, overallError>>
              ELSE /\ overallError' =
                        OrElse(m.reason, "An unexpected error stopped the benchmark.")
                   /\ isLoading' = FALSE
                   /\ acts' = RemoveAt(acts, a)
                   /\ UNCHANGED benchmarkRuns
    /\ UNCHANGED <<variant, averageResults, markers, issued, fetchVars, aggVars, shuffleVars, serverVars>>

\* Serial variant: progress.set(...) resolves.  The inner loop calls the next
\* measureFetch; after the last endpoint the round's results are replaced by
\* currentRunResults and the outer loop goes on, or calculateAverages runs
\* and runBenchmark awaits progress.set(100).
TweenDoneSerial(a) ==
    /\ variant = "serial"
    /\ acts[a].pc = "tween"
    /\ LET act == acts[a]
           currentRunId == act.i + 1
       IN  IF act.j + 1 <= Len(act.shuffledEndpoints)
           THEN /\ acts' = [acts EXCEPT ![a].j = @ + 1, ![a].pc = "fetch"]
                /\ issued' = CountCalls(issued, currentRunId,
                                SubSeq(act.shuffledEndpoints, act.j + 1, act.j + 1))
                /\ UNCHANGED <<benchmarkRuns, averageResults, markers>>
           ELSE LET runs == ReplaceResults(benchmarkRuns, currentRunId,
                                           act.currentRunResults)
                IN  /\ benchmarkRuns' = runs
                    /\ UNCHANGED issued
                    /\ IF act.i + 1 < RUN_COUNT
                       THEN /\ acts' = [acts EXCEPT ![a] = Suspended("delay", act.i + 1)]
                            /\ UNCHANGED <<averageResults, markers>>
                       ELSE LET new == calculateAverages("serial", runs,
                                                         averageResults, markers)
                            IN  /\ averageResults' = new.averageResults
                                /\ markers' = new.markers
                                /\ acts' = [acts EXCEPT
                                              ![a] = Suspended("finalTween", act.i + 1)]
    /\ UNCHANGED <<variant, isLoading, overallError, returned, fetchVars, aggVars, shuffleVars, serverVars>>

\* Faulty variant of the end of the serial run: the finally block does not
\* clear isLoading.
FinalTweenDoneStillLoading(a) ==
    /\ variant = "serial"
    /\ acts[a].pc = "finalTween"
    /\ acts' = RemoveAt(acts, a)
    /\ UNCHANGED <<variant, benchmarkRuns, isLoading, overallError, averageResults,
                   markers, issued, returned, fetchVars, aggVars, shuffleVars, serverVars>>

\* Serial variant: progress.set(100) resolves and the finally block runs.
FinalTweenDone(a) ==
    /\ variant = "serial"
    /\ acts[a].pc = "finalTween"
    /\ isLoading' = FALSE
    /\ acts' = RemoveAt(acts, a)
    /\ UNCHANGED <<variant, benchmarkRuns, overallError, averageResults, markers,
                   issued, returned, fetchVars, aggVars, shuffleVars, serverVars>>

Next ==
    \/ ClickRun
    \/ \E a \in 1..Len(acts) : DelayDone(a)
    \/ \E a \in 1..Len(acts), k \in 1..NumEndpoints, o \in OrchOutcomes :
          FetchSettlesParallel(a, k, o)
    \/ \E a \in 1..Len(acts) : TweenDoneParallel(a)
    \/ \E a \in 1..Len(acts), o \in OrchOutcomes : FetchSettlesSerial(a, o)
    \/ \E a \in 1..Len(acts) : TweenDoneSerial(a)
    \/ \E a \in 1..Len(acts) : FinalTweenDone(a)

Spec == Init /\ [][Next]_vars

----------------------------------------------------------------------------
(* SpecFault: runBenchmark with exceptions in the orchestration itself.    *)
(* The promise an activation awaits outside a measurement (delay(...),     *)
(* progress.set(...)) rejects with an Error of the given message; the      *)
(* catch block and the finally block run.                                  *)

ThrownMessages == {"tween failed", ""}

OrchestrationThrows(a, message) ==
    /\ acts[a].pc \in {"tween", "delay", "finalTween"}
    /\ LET error == OrElse(message, "An unexpected error stopped the benchmark.")
           new == IF variant = "parallel"
                  THEN FinallyParallel(benchmarkRuns, error)
                  ELSE [averageResults |-> averageResults, markers |-> markers]
       IN  /\ overallError' = error
           /\ isLoading' = FALSE
           /\ averageResults' = new.averageResults
           /\ markers' = new.markers
           /\ acts' = RemoveAt(acts, a)
    /\ UNCHANGED <<variant, benchmarkRuns, issued, returned, fetchVars, aggVars, shuffleVars, serverVars>>

NextFault ==
    \/ Next
    \/ \E a \in 1..Len(acts), message \in ThrownMessages : OrchestrationThrows(a, message)

SpecFault == Init /\ [][NextFault]_vars

\* SpecLive: every fetch that was issued settles, and every delay timer and
\* progress tween that was started completes (or rejects): an activation of
\* runBenchmark that can go on eventually does.  Clicks are not forced.
Resumes ==
    \E a \in 1..Len(acts) :
        \/ DelayDone(a)
        \/ \E k \in 1..NumEndpoints, o \in OrchOutcomes : FetchSettlesParallel(a, k, o)
        \/ TweenDoneParallel(a)
        \/ \E o \in OrchOutcomes : FetchSettlesSerial(a, o)
        \/ TweenDoneSerial(a)
        \/ FinalTweenDone(a)
        \/ \E message \in ThrownMessages : OrchestrationThrows(a, message)

SpecLive == Init /\ [][NextFault]_vars /\ WF_vars(Resumes)

----------------------------------------------------------------------------
(* SpecFetch: measureFetch as a function of the outcome of the HTTP call.  *)

InitFetch ==
    /\ variant \in Variants
    /\ benchmarkRuns = <<>>
    /\ isLoading = FALSE
    /\ overallError = NullStr
    /\ averageResults = initialAverageResults
    /\ markers = NoMarkers
    /\ acts = <<>>
    /\ issued = NoneIssued
    /\ returned = NoneReturned
    /\ fetchIn \in AllOutcomes
    /\ fetchOut = NoFetch
    /\ aggRuns = <<>>
    /\ aggOut = <<>>
    /\ arrays = ArraysOf(ENDPOINTS)
    /\ shuffledRef = "none"
    /\ randomIndices = <<>>
    /\ request = Idle
    /\ response = Idle
    /\ handler = Idle

CallMeasureFetch ==
    /\ fetchOut = NoFetch
    /\ fetchOut' = measureFetch(variant, fetchIn)
    /\ UNCHANGED <<variant, orchVars, fetchIn, aggVars, shuffleVars, serverVars>>

NextFetch == CallMeasureFetch

SpecFetch == InitFetch /\ [][NextFetch]_vars

----------------------------------------------------------------------------
(* SpecAgg: calculateAverages as a function of a completed RunRecord       *)
(* sequence over the registry [A, B] of the specification's example.       *)

Result(clientTime, serverTime, binding, error) ==
    [clientTime |-> clientTime, serverTime |-> serverTime,
     binding |-> binding, error |-> error]

AggRegistry == <<"A", "B">>
AggIds == {"A", "B"}

\* results of the warm-up round
WarmupSamples ==
    {Result(50, 10, "db", NullStr),
     Result(80, 5, "db", NullStr),
     Result(9000, NullNum, "Error", "timeout")}

\* results of the later rounds: successes, a failed measurement, a success
\* without a server time, and a body that reports an error with both times
AggSamples ==
    {Result(40, 8, "db", NullStr),
     Result(45, 9, "db", NullStr),
     Result(70, 6, "db", NullStr),
     Result(200, NullNum, "Error", "timeout"),
     Result(30, NullNum, "db", NullStr),
     Result(60, 7, "db", "db failed")}

CompletedRuns ==
    {[k \in 1..RUN_COUNT |-> [runId |-> k, results |-> IF k = 1 THEN w ELSE r[k]]] :
        w \in [AggIds -> WarmupSamples],
        r \in [2..RUN_COUNT -> [AggIds -> AggSamples]]}

InitAgg ==
    /\ variant \in Variants
    /\ benchmarkRuns = <<>>
    /\ isLoading = FALSE
    /\ overallError = NullStr
    /\ averageResults = initialAverageResults
    /\ markers = NoMarkers
    /\ acts = <<>>
    /\ issued = NoneIssued
    /\ returned = NoneReturned
    /\ fetchIn = Outcome("reject", NullNum, 1, "", NullNum, NullStr, NullStr)
    /\ fetchOut = NoFetch
    /\ aggRuns \in CompletedRuns
    /\ aggOut = <<>>
    /\ arrays = ArraysOf(ENDPOINTS)
    /\ shuffledRef = "none"
    /\ randomIndices = <<>>
    /\ request = Idle
    /\ response = Idle
    /\ handler = Idle

AggInitialAverages ==
    [id \in AggIds |-> [avgClientTime |-> NullAvg, avgServerTime |-> NullAvg]]

AveragesOf(v, runs) ==
    calculateAveragesOver(v, AggRegistry, runs, AggInitialAverages, NoMarkers)

\* what a call left behind, with the number of calls made so far
Called(out, calls) ==
    [averageResults |-> out.averageResults, markers |-> out.markers, calls |-> calls]

CallCalculateAverages ==
    /\ aggOut = <<>>
    /\ aggOut' = Called(AveragesOf(variant, aggRuns), 1)
    /\ UNCHANGED <<variant, orchVars, fetchVars, aggRuns, shuffleVars, serverVars>>

\* calculateAverages is called once more, on the same benchmarkRuns and on
\* the averageResults and markers the call before left behind
CallCalculateAveragesAgain ==
    /\ aggOut # <<>>
    /\ aggOut.calls < MaxCalls
    /\ aggOut' = Called(calculateAveragesOver(variant, AggRegistry, aggRuns,
                                              aggOut.averageResults, aggOut.markers),
                        aggOut.calls + 1)
    /\ UNCHANGED <<variant, orchVars, fetchVars, aggRuns, shuffleVars, serverVars>>

NextAgg ==
    \/ CallCalculateAverages
    \/ CallCalculateAveragesAgain

SpecAgg == InitAgg /\ [][NextAgg]_vars

----------------------------------------------------------------------------
(* SpecShuffle: shuffleArray([...ENDPOINTS]) as runBenchmark calls it at   *)
(* the start of every round, for registries of distinct elements.          *)

ArrayNames == <<"A", "B", "C", "D", "E", "F">>
ArrayElements == {ArrayNames[k] : k \in 1..Len(ArrayNames)}

Reverse(array) == [k \in 1..Len(array) |-> array[Len(array) + 1 - k]]

\* the arrays handed to shuffleArray: up to MaxShuffle distinct elements, in
\* the order of ArrayNames or in the opposite order
Registries ==
    UNION {{SubSeq(ArrayNames, 1, n), Reverse(SubSeq(ArrayNames, 1, n))} :
           n \in 0..MaxShuffle}

InitShuffle ==
    /\ variant \in Variants
    /\ benchmarkRuns = <<>>
    /\ isLoading = FALSE
    /\ overallError = NullStr
    /\ averageResults = initialAverageResults
    /\ markers = NoMarkers
    /\ acts = <<>>
    /\ issued = NoneIssued
    /\ returned = NoneReturned
    /\ fetchIn = Outcome("reject", NullNum, 1, "", NullNum, NullStr, NullStr)
    /\ fetchOut = NoFetch
    /\ aggRuns = <<>>
    /\ aggOut = <<>>
    /\ \E registry \in Registries : arrays = ArraysOf(registry)
    /\ shuffledRef = "none"
    /\ randomIndices = <<>>
    /\ request = Idle
    /\ response = Idle
    /\ handler = Idle

\* const shuffledEndpoints = shuffleArray([...ENDPOINTS])
ShuffleRound(draws) ==
    /\ LET spread == SpreadCopy(arrays, "ENDPOINTS")
           shuffled == shuffleArrayAt(spread.arrays, spread.ref, draws)
       IN  /\ arrays' = shuffled.arrays
           /\ shuffledRef' = shuffled.ref
    /\ randomIndices' = draws
    /\ UNCHANGED <<variant, orchVars, fetchVars, aggVars, serverVars>>

NextShuffle ==
    \E draws \in RandomDraws(Len(arrays["ENDPOINTS"])) : ShuffleRound(draws)

SpecShuffle == InitShuffle /\ [][NextShuffle]_vars

----------------------------------------------------------------------------
(* Properties *)

\* The rounds and values that qualify for the average of `field` of endpoint
\* id: runId >= 2, error null, a number in the field.
Qualifying(runs, id, field) ==
    {k \in 1..Len(runs) :
        /\ runs[k].runId >= 2
        /\ id \in DOMAIN runs[k].results
        /\ runs[k].results[id].error = NullStr
        /\ IsNumber(runs[k].results[id][field])}

RECURSIVE SumOver(_, _, _, _)
SumOver(runs, id, field, rounds) ==
    IF rounds = {} THEN 0
    ELSE LET k == CHOOSE x \in rounds : TRUE
         IN  runs[k].results[id][field] + SumOver(runs, id, field, rounds \ {k})

\* avg is (sum of the qualifying values) / (their count), or null without any
IsMeanOf(avg, runs, id, field) ==
    LET rounds == Qualifying(runs, id, field)
    IN  IF rounds = {} THEN avg = NullAvg
        ELSE /\ avg # NullAvg
             /\ avg[2] > 0
             /\ avg[1] * Cardinality(rounds) = SumOver(runs, id, field, rounds) * avg[2]

\* The end-to-end scenario of the specification.
ScenarioRuns ==
    <<[runId |-> 1, results |-> [A |-> Result(50, 10, "db", NullStr),
                                 B |-> Result(80, 5, "db", NullStr)]],
      [runId |-> 2, results |-> [A |-> Result(40, 8, "db", NullStr),
                                 B |-> Result(200, NullNum, "Error", "timeout")]],
      [runId |-> 3, results |-> [A |-> Result(45, 9, "db", NullStr),
                                 B |-> Result(70, 6, "db", NullStr)]]>>

\* A = (42.5, 8.5), B = (70, 6)
ScenarioAverages ==
    [A |-> [avgClientTime |-> <<85, 2>>, avgServerTime |-> <<17, 2>>],
     B |-> [avgClientTime |-> <<70, 1>>, avgServerTime |-> <<6, 1>>]]

\* C1: for a completed sequence of RUN_COUNT RunRecords, calculateAverages
\* sets each endpoint's avgClientTime to the mean of the numeric clientTime of
\* the rounds with runId >= 2 and error null, and avgServerTime likewise; each
\* metric has its own sample count, and a metric without samples is null.  On
\* the specification's scenario the result is A = (42.5, 8.5), B = (70, 6).
C1_AveragesAreMeans ==
    aggOut # <<>> =>
        /\ \A id \in AggIds :
            /\ IsMeanOf(aggOut.averageResults[id].avgClientTime, aggRuns, id, "clientTime")
            /\ IsMeanOf(aggOut.averageResults[id].avgServerTime, aggRuns, id, "serverTime")
        /\ aggRuns = ScenarioRuns => aggOut.averageResults = ScenarioAverages

C1_Witness == aggOut # <<>> /\ aggRuns = ScenarioRuns

\* The sequence with the times of every result that has an error changed.
Tampered(runs) ==
    [k \in 1..Len(runs) |->
        [runId |-> runs[k].runId,
         results |-> [id \in DOMAIN runs[k].results |->
            LET r == runs[k].results[id]
            IN  IF r.error = NullStr THEN r
                ELSE Result(1000, 1000, r.binding, r.error)]]]

\* The sequence with every result that has an error replaced by the placeholder.
Erased(runs) ==
    [k \in 1..Len(runs) |->
        [runId |-> runs[k].runId,
         results |-> [id \in DOMAIN runs[k].results |->
            IF runs[k].results[id].error = NullStr
            THEN runs[k].results[id] ELSE PendingResult]]]

\* C3: a result whose error is not null contributes to neither average of its
\* endpoint: the averages are the same whatever the times of such results
\* are, and the same as without those results.
C3_ErrorsNeverContribute ==
    aggOut # <<>> =>
        /\ aggOut.averageResults = AveragesOf(variant, Tampered(aggRuns)).averageResults
        /\ aggOut.averageResults = AveragesOf(variant, Erased(aggRuns)).averageResults

\* A succeeds in round 2 and fails, with a numeric clientTime, in round 3: the
\* average is the single successful sample.
C3_Witness ==
    /\ aggOut # <<>>
    /\ aggRuns[2].results["A"] = Result(40, 8, "db", NullStr)
    /\ aggRuns[3].results["A"] = Result(200, NullNum, "Error", "timeout")
    /\ aggOut.averageResults["A"] = [avgClientTime |-> <<40, 1>>, avgServerTime |-> <<8, 1>>]

\* A 2xx body is schema-invalid when it is not an object, or reports no error
\* and lacks a numeric timeMs or a string binding.
SchemaInvalid(o) ==
    \/ o.kind = "jsonnull"
    \/ /\ o.kind = "json"
       /\ o.error = NullStr
       /\ (o.timeMs = NullNum \/ o.binding = NullStr)

CallFails(o) == o.kind \in {"reject", "http", "badjson"} \/ SchemaInvalid(o)

\* C4: measureFetch never rejects; on a network rejection, a non-success
\* status, an unparseable body or a schema-invalid body it resolves to a
\* result with a non-null error, a null serverTime and a numeric clientTime.
C4_MeasureFetchNeverRejects ==
    fetchOut # NoFetch =>
        /\ fetchOut.settled = "fulfilled"
        /\ CallFails(fetchIn) =>
            /\ fetchOut.value.error # NullStr
            /\ fetchOut.value.serverTime = NullNum
            /\ IsNumber(fetchOut.value.clientTime)

\* malformed JSON on a 200 response
C4_Witness ==
    /\ fetchIn.kind = "badjson"
    /\ fetchOut.settled = "fulfilled"
    /\ fetchOut.value.error = "Invalid JSON response received."

----------------------------------------------------------------------------
(* Properties of runBenchmark (specification Spec) *)

IsTerminal(result) == result.binding # "Pending..."

AllTerminal(run) == \A id \in DOMAIN run.results : IsTerminal(run.results[id])

\* a run that was started has come to its end
RunEnded == ~isLoading /\ benchmarkRuns # <<>>

\* results a warm-up round might have held instead
OtherWarmups ==
    {Result(100000, 100000, "db", NullStr),
     Result(9000, NullNum, "Error", "timeout")}

WithRound1(runs, results) ==
    [k \in 1..Len(runs) |->
        IF runs[k].runId = 1 THEN [runId |-> 1, results |-> results] ELSE runs[k]]

\* C2: round 1 never contributes to an average: whatever results the record
\* with runId 1 holds, calculateAverages yields the averages it yields for
\* the sequence the run produced, with filter(runId >= 2) and with
\* slice(1, RUN_COUNT) alike, and both select the same rounds of it.
C2_FirstRoundExcluded ==
    (RunEnded /\ overallError = NullStr) =>
        /\ FilterRelevant(benchmarkRuns) = SliceRelevant(benchmarkRuns)
        /\ \A v \in Variants :
            /\ calculateAverages(v, benchmarkRuns, initialAverageResults,
                                 NoMarkers).averageResults = averageResults
            /\ \A w \in [EndpointIds -> OtherWarmups] :
                calculateAverages(v, WithRound1(benchmarkRuns, w),
                                  initialAverageResults,
                                  NoMarkers).averageResults = averageResults

\* round 1 succeeded for A, rounds 2 and 3 failed: A has no average
C2_Witness ==
    /\ RunEnded
    /\ Len(benchmarkRuns) = RUN_COUNT
    /\ benchmarkRuns[1].results["A"].error = NullStr
    /\ IsNumber(benchmarkRuns[1].results["A"].clientTime)
    /\ averageResults["A"].avgClientTime = NullAvg
    /\ averageResults["B"].avgClientTime # NullAvg

\* the entry of round r for id is what the measureFetch of <<r, id>> returned
RecordedAsReturned(run, id) ==
    /\ id \in DOMAIN run.results
    /\ returned[<<run.runId, id>>].settled = "fulfilled"
    /\ run.results[id] = returned[<<run.runId, id>>].value

\* C5: whatever the outcomes of the measurements, overallError stays null,
\* the run ends only with all RUN_COUNT rounds recorded, and every entry that
\* is not the placeholder is the result the measureFetch of its own round and
\* endpoint returned, a failed one (error not null) included.
C5_FailuresNeverAbort ==
    /\ overallError = NullStr
    /\ \A k \in 1..Len(benchmarkRuns) : \A id \in EndpointIds :
        \/ /\ id \in DOMAIN benchmarkRuns[k].results
           /\ benchmarkRuns[k].results[id] = PendingResult
        \/ RecordedAsReturned(benchmarkRuns[k], id)
    /\ RunEnded =>
        /\ Len(benchmarkRuns) = RUN_COUNT
        /\ \A k \in 1..RUN_COUNT : \A id \in EndpointIds :
            RecordedAsReturned(benchmarkRuns[k], id)

\* a run that ended although A failed in round 1 and in round 2, with B's
\* results of those rounds recorded as successes
C5_Witness ==
    /\ RunEnded
    /\ Len(benchmarkRuns) = RUN_COUNT
    /\ benchmarkRuns[1].results["A"].error = "Failed to fetch"
    /\ benchmarkRuns[1].results["B"].error = NullStr
    /\ benchmarkRuns[2].results["A"].error = "db failed"
    /\ benchmarkRuns[2].results["B"].error = NullStr
    /\ benchmarkRuns[3].results["A"].error = NullStr

\* C6: the results map of every RunRecord in benchmarkRuns has exactly the
\* registered endpoint ids as its keys.
C6_ResultsKeyedByRegistry ==
    \A k \in 1..Len(benchmarkRuns) : DOMAIN benchmarkRuns[k].results = EndpointIds

\* round 1 holds its final results, round 2 is in flight with one entry
\* filled in or none
C6_Witness ==
    /\ Len(benchmarkRuns) = 2
    /\ AllTerminal(benchmarkRuns[1])
    /\ ~AllTerminal(benchmarkRuns[2])
    /\ isLoading

\* C7: no measureFetch is issued twice for a round and an endpoint, and a run
\* that ends without a fatal error has issued exactly one per round and
\* registered endpoint and left RUN_COUNT records with runId 1, 2, ...,
\* RUN_COUNT in this order.
C7_EachEndpointOncePerRound ==
    /\ \A key \in Keys : issued[key] <= 1
    /\ (RunEnded /\ overallError = NullStr) =>
        /\ \A key \in Keys : issued[key] = 1
        /\ Len(benchmarkRuns) = RUN_COUNT
        /\ \A k \in 1..RUN_COUNT : benchmarkRuns[k].runId = k

C7_Witness ==
    /\ RunEnded
    /\ overallError = NullStr
    /\ \A key \in Keys : issued[key] = 1
    /\ \A k \in 1..RUN_COUNT : AllTerminal(benchmarkRuns[k])

\* C8: rounds are strictly sequential: only the last record of benchmarkRuns
\* can hold "Pending..." entries, a measureFetch of a round is issued only
\* when the record of the round is published, and a record is published with
\* every endpoint id mapped to the placeholder.
C8_RoundsSequential ==
    /\ [](\A k \in 1..Len(benchmarkRuns) :
            k < Len(benchmarkRuns) => AllTerminal(benchmarkRuns[k]))
    /\ [](\A key \in Keys :
            issued[key] > 0 => \E k \in 1..Len(benchmarkRuns) :
                                  benchmarkRuns[k].runId = key[1])
    /\ [][(Len(benchmarkRuns') = Len(benchmarkRuns) + 1 \/ (~isLoading /\ isLoading'))
            => /\ benchmarkRuns'[Len(benchmarkRuns')].results = Placeholders
               /\ benchmarkRuns'[Len(benchmarkRuns')].runId = Len(benchmarkRuns')]_vars

\* round 3 is in flight, rounds 1 and 2 are recorded
C8_Witness ==
    /\ Len(benchmarkRuns) = RUN_COUNT
    /\ AllTerminal(benchmarkRuns[1])
    /\ AllTerminal(benchmarkRuns[2])
    /\ benchmarkRuns[3].results = Placeholders
    /\ \E id \in EndpointIds : issued[<<3, id>>] = 1

\* C9: while isLoading is true exactly one activation of runBenchmark is
\* alive and the button cannot start another; isLoading is false again only
\* when all rounds are recorded or a fatal error is.
C9_NoSecondRunWhileLoading ==
    /\ Len(acts) <= 1
    /\ isLoading <=> Len(acts) = 1
    /\ isLoading => ~ENABLED ClickRun
    /\ RunEnded =>
        \/ /\ Len(benchmarkRuns) = RUN_COUNT
           /\ \A k \in 1..RUN_COUNT : AllTerminal(benchmarkRuns[k])
        \/ overallError # NullStr

\* a run between its rounds: the delay is pending, the button is disabled
C9_Witness ==
    /\ isLoading
    /\ Len(acts) = 1
    /\ acts[1].pc = "delay"
    /\ ~ENABLED ClickRun

\* the activation that measures the round of run, if there is one
InFlight(run) ==
    \E a \in 1..Len(acts) : acts[a].pc = "allSettled" /\ acts[a].i + 1 = run.runId

----------------------------------------------------------------------------
(* Properties of measureFetch on 2xx bodies (specification SpecFetch) *)

InvalidStructure == "Invalid response structure (missing timeMs or binding)."

\* the body lacks a numeric timeMs or a string binding
BodyIncomplete(o) == o.timeMs = NullNum \/ o.binding = NullStr

\* measureFetch has run on a 2xx response whose body is a JSON object
MeasuredJsonBody == fetchOut # NoFetch /\ fetchIn.kind = "json"

RunsHolding(r) ==
    [k \in 1..RUN_COUNT |->
        [runId |-> k, results |-> [A |-> r, B |-> Result(70, 6, "db", NullStr)]]]

\* C12: a 2xx body with a numeric timeMs, a string binding and a non-null
\* error e yields a fulfilled result with clientTime the elapsed time at the
\* arrival of the response, serverTime and binding the body's own, and error
\* e; calculateAverages leaves such a result out: an endpoint that holds it
\* in every round has no averages, and the other endpoint's are unchanged.
C12_BodyErrorPassedThrough ==
    (MeasuredJsonBody /\ ~BodyIncomplete(fetchIn) /\ fetchIn.error # NullStr) =>
        /\ fetchOut.settled = "fulfilled"
        /\ fetchOut.value =
              Result(fetchIn.headersAt, fetchIn.timeMs, fetchIn.binding, fetchIn.error)
        /\ AveragesOf(variant, RunsHolding(fetchOut.value)).averageResults =
              [A |-> [avgClientTime |-> NullAvg, avgServerTime |-> NullAvg],
               B |-> [avgClientTime |-> <<70, 1>>, avgServerTime |-> <<6, 1>>]]

\* a 200 that reports a database failure next to its timeMs and binding
C12_Witness ==
    /\ MeasuredJsonBody
    /\ fetchIn.timeMs = 8
    /\ fetchIn.binding = "db"
    /\ fetchIn.error = "db failed"
    /\ fetchOut.value.error = "db failed"
    /\ fetchOut.value.serverTime = 8

----------------------------------------------------------------------------
(* Properties of runBenchmark under orchestration exceptions (SpecFault) *)

NullAverages == [avgClientTime |-> NullAvg, avgServerTime |-> NullAvg]

\* C13: while benchmarkRuns holds fewer than RUN_COUNT records (a run just
\* started, in progress, or aborted by a fatal error), every endpoint's
\* avgClientTime and avgServerTime is null, and a call of calculateAverages
\* in that state would leave averageResults and the markers as they are.
C13_NoAveragesBeforeLastRound ==
    Len(benchmarkRuns) < RUN_COUNT =>
        /\ \A id \in EndpointIds : averageResults[id] = NullAverages
        /\ markers = NoMarkers
        /\ calculateAverages(variant, benchmarkRuns, averageResults, markers)
              = [averageResults |-> averageResults, markers |-> markers]

\* a run aborted in its second round, after a success of A in that round
C13_Witness ==
    /\ ~isLoading
    /\ overallError # NullStr
    /\ Len(benchmarkRuns) = 2
    /\ benchmarkRuns[2].results["A"].error = NullStr
    /\ IsNumber(benchmarkRuns[2].results["A"].clientTime)
    /\ averageResults["A"] = NullAverages

\* the catch block of runBenchmark runs in this step
Aborts == overallError = NullStr /\ overallError' # NullStr

\* the exception is thrown inside the loop over the rounds
DuringRound == \A a \in 1..Len(acts) : acts[a].pc # "finalTween"

\* C15: when an exception is thrown in runBenchmark itself during a round,
\* the records published so far stay in benchmarkRuns, overallError becomes a
\* non-empty message, isLoading becomes false and every average stays null;
\* until the next click nothing changes any more: no measurement of a later
\* round is issued.
C15_OrchestrationExceptionAborts ==
    /\ [](overallError # NullStr =>
            /\ overallError # ""
            /\ ~isLoading
            /\ acts = <<>>
            /\ \A key \in Keys : key[1] > Len(benchmarkRuns) => issued[key] = 0)
    /\ [][Aborts =>
            /\ benchmarkRuns # <<>>
            /\ benchmarkRuns' = benchmarkRuns
            /\ issued' = issued
            /\ DuringRound =>
                 \A id \in EndpointIds : averageResults'[id] = NullAverages]_vars
    /\ [][(overallError # NullStr /\ overallError' # NullStr) =>
            UNCHANGED <<benchmarkRuns, issued, averageResults, isLoading>>]_vars

\* a run aborted in round 2 with the default message: round 1 is recorded,
\* round 2 shows one result and one placeholder, no round 3 was started
C15_Witness ==
    /\ ~isLoading
    /\ overallError = "An unexpected error stopped the benchmark."
    /\ Len(benchmarkRuns) = 2
    /\ AllTerminal(benchmarkRuns[1])
    /\ \E id, other \in EndpointIds :
        /\ IsTerminal(benchmarkRuns[2].results[id])
        /\ benchmarkRuns[2].results[other] = PendingResult
    /\ \A id \in EndpointIds : issued[<<3, id>>] = 0
    /\ \A id \in EndpointIds : averageResults[id] = NullAverages

\* a click on the Run button starts a new run in this step
StartsRun == ~isLoading /\ isLoading'

\* C14: within one run, an entry of benchmarkRuns that holds a terminal
\* result (binding other than "Pending...") holds the same clientTime,
\* serverTime, binding and error after every step, the replacement of the
\* round's results map at the end of the round and the steps of all later
\* rounds included; only the reset of the next run removes it.
C14_TerminalResultsImmutable ==
    [][~StartsRun =>
        \A k \in 1..Len(benchmarkRuns) : \A id \in DOMAIN benchmarkRuns[k].results :
            IsTerminal(benchmarkRuns[k].results[id]) =>
                /\ k <= Len(benchmarkRuns')
                /\ benchmarkRuns'[k].runId = benchmarkRuns[k].runId
                /\ id \in DOMAIN benchmarkRuns'[k].results
                /\ benchmarkRuns'[k].results[id] = benchmarkRuns[k].results[id]]_vars

\* the serial variant in round 3, with the entry-wise results of round 1
\* replaced by the round's results map: A failed in round 1 and succeeded in
\* round 2, and both entries are what measureFetch returned
C14_Witness ==
    /\ variant = "serial"
    /\ isLoading
    /\ Len(benchmarkRuns) = RUN_COUNT
    /\ benchmarkRuns[1].results["A"].error = "Failed to fetch"
    /\ benchmarkRuns[1].results["A"] = returned[<<1, "A">>].value
    /\ benchmarkRuns[2].results["A"].error = NullStr
    /\ benchmarkRuns[2].results["A"] = returned[<<2, "A">>].value
    /\ \E id \in EndpointIds : IsTerminal(benchmarkRuns[3].results[id])

----------------------------------------------------------------------------
(* Properties of shuffleArray (specification SpecShuffle) *)

Occurrences(array, e) == Cardinality({k \in 1..Len(array) : array[k] = e})

\* C16: whatever the random draws, the array shuffleArray returns holds
\* exactly the elements of the registry, each exactly once, and the registry
\* keeps its order in every round: the array shuffled is another object.
C16_ShuffleIsPermutation ==
    /\ [](shuffledRef # "none" =>
            /\ shuffledRef # "ENDPOINTS"
            /\ Len(arrays[shuffledRef]) = Len(arrays["ENDPOINTS"])
            /\ \A e \in ArrayElements :
                 /\ Occurrences(arrays[shuffledRef], e) = Occurrences(arrays["ENDPOINTS"], e)
                 /\ Occurrences(arrays[shuffledRef], e) <= 1)
    /\ [][arrays'["ENDPOINTS"] = arrays["ENDPOINTS"]]_vars

\* the registry A, B, C, D after a round that drew its reverse
C16_Witness ==
    /\ shuffledRef = "copy"
    /\ arrays["ENDPOINTS"] = <<"A", "B", "C", "D">>
    /\ arrays["copy"] = <<"D", "C", "B", "A">>

RECURSIVE Factorial(_)
Factorial(n) == IF n = 0 THEN 1 ELSE n * Factorial(n - 1)

\* the rearrangements of array
PermutationsOf(array) ==
    LET n == Len(array)
    IN  {[k \in 1..n |-> array[f[k]]] :
            f \in {g \in [1..n -> 1..n] : \A p, q \in 1..n : g[p] = g[q] => p = q}}

\* C17: the randomIndex drawn at currentIndex is one of 0 .. currentIndex - 1
\* and the draws determine the result; over the n! sequences of draws
\* shuffleArray yields each of the n! permutations of its n distinct
\* elements, each for exactly one sequence.
C17_DrawsMatchPermutations ==
    shuffledRef # "none" =>
        LET registry == arrays["ENDPOINTS"]
            n == Len(registry)
            results == {shuffleArray(registry, d) : d \in RandomDraws(n)}
        IN  /\ \A k \in 1..n : randomIndices[k] \in 0..(k - 1)
            /\ arrays[shuffledRef] = shuffleArray(registry, randomIndices)
            /\ Cardinality(RandomDraws(n)) = Factorial(n)
            /\ results = PermutationsOf(registry)
            /\ Cardinality(results) = Factorial(n)

\* four elements, randomIndex 0 at every step: the rotation B, C, D, A
C17_Witness ==
    /\ shuffledRef = "copy"
    /\ arrays["ENDPOINTS"] = <<"A", "B", "C", "D">>
    /\ randomIndices = <<0, 0, 0, 0>>
    /\ arrays["copy"] = <<"B", "C", "D", "A">>

----------------------------------------------------------------------------
(* Properties of repeated calls of calculateAverages (specification SpecAgg) *)

\* C18: a second call of calculateAverages on the same completed
\* benchmarkRuns leaves averageResults and the best/worst markers as the
\* first call set them, the result of every call is the one the RunRecords
\* alone determine, and no call changes benchmarkRuns.
C18_CalculateAveragesIdempotent ==
    /\ [](aggOut # <<>> =>
            /\ aggOut.averageResults = AveragesOf(variant, aggRuns).averageResults
            /\ aggOut.markers = AveragesOf(variant, aggRuns).markers)
    /\ [][aggOut # <<>> =>
            /\ aggOut'.averageResults = aggOut.averageResults
            /\ aggOut'.markers = aggOut.markers]_vars
    /\ [][aggRuns' = aggRuns]_vars

\* the serial variant after its second call on a sequence in which only B
\* has samples: B's averages are the best and the worst ones
C18_Witness ==
    /\ variant = "serial"
    /\ aggOut # <<>>
    /\ aggOut.calls = 2
    /\ aggOut.averageResults["A"] = NullAverages
    /\ aggOut.averageResults["B"] = [avgClientTime |-> <<55, 1>>, avgServerTime |-> <<7, 1>>]
    /\ aggOut.markers.bestAvgClientTime = <<55, 1>>
    /\ aggOut.markers.worstAvgClientTime = <<55, 1>>

----------------------------------------------------------------------------
(* Order of the measurements in the serial variant (specification Spec) *)

\* the measureFetch calls that were issued and have not returned
FetchesInFlight == {key \in Keys : issued[key] > 0 /\ returned[key] = NoFetch}

RecordOf(runId) == benchmarkRuns[CHOOSE k \in 1..Len(benchmarkRuns) :
                                    benchmarkRuns[k].runId = runId]

\* C19: in the serial variant at most one measureFetch is in flight, the one
\* for the j-th endpoint of the round's shuffled list, and the terminal
\* entries of the round's record are exactly those of the endpoints before
\* it in that list: the entries become terminal in the shuffled order.
C19_SerialInShuffleOrder ==
    variant = "serial" =>
        /\ Cardinality(FetchesInFlight) <= 1
        /\ \A a \in 1..Len(acts) :
            acts[a].pc \in {"fetch", "tween"} =>
                LET act == acts[a]
                    measured == IF act.pc = "fetch" THEN act.j - 1 ELSE act.j
                IN  /\ \A k \in 1..Len(act.shuffledEndpoints) :
                        IsTerminal(RecordOf(act.i + 1).results[act.shuffledEndpoints[k]])
                            <=> k <= measured
                    /\ FetchesInFlight =
                          IF act.pc = "fetch"
                          THEN {<<act.i + 1, act.shuffledEndpoints[act.j]>>}
                          ELSE {}

\* round 2 was shuffled to B, A; B is measured, the fetch of A is in flight
C19_Witness ==
    /\ variant = "serial"
    /\ Len(acts) = 1
    /\ acts[1].pc = "fetch"
    /\ acts[1].i = 1
    /\ acts[1].shuffledEndpoints = <<"B", "A">>
    /\ IsTerminal(benchmarkRuns[2].results["B"])
    /\ benchmarkRuns[2].results["A"] = PendingResult
    /\ FetchesInFlight = {<<2, "A">>}

----------------------------------------------------------------------------
(* Termination (specification SpecLive) *)

\* averageResults holds the averages of the recorded rounds
AveragesComputed ==
    \A id \in EndpointIds :
        /\ IsMeanOf(averageResults[id].avgClientTime, benchmarkRuns, id, "clientTime")
        /\ IsMeanOf(averageResults[id].avgServerTime, benchmarkRuns, id, "serverTime")

RunComplete ==
    /\ Len(benchmarkRuns) = RUN_COUNT
    /\ \A k \in 1..RUN_COUNT : AllTerminal(benchmarkRuns[k])
    /\ AveragesComputed

\* C20: when every fetch settles and every timer and tween completes, a
\* run that was started reaches a state in which isLoading is false and
\* either all RUN_COUNT rounds are recorded and the averages are computed,
\* or overallError is set.
C20_RunTerminates ==
    isLoading ~> (~isLoading /\ (RunComplete \/ overallError # NullStr))

\* a run that went through all its rounds and has its averages
C20_Witness ==
    /\ ~isLoading
    /\ overallError = NullStr
    /\ RunComplete
    /\ \E id \in EndpointIds : averageResults[id].avgClientTime # NullAvg

----------------------------------------------------------------------------
(* Properties of measureFetch on non-success responses (SpecFetch) *)

\* the first n characters of text, as a string
RECURSIVE CharsFrom(_, _, _)
CharsFrom(text, k, count) ==
    IF count = 0 THEN ""
    ELSE IF count = 1 THEN text[k]
    ELSE CharsFrom(text, k, count \div 2)
            \o CharsFrom(text, k + count \div 2, count - count \div 2)

FirstChars(text, n) == CharsFrom(text, 1, n)

\* C21: for a response with a non-success status measureFetch returns a
\* result whose error is "HTTP <status> <statusText>: <text>", where <text>
\* is the body up to its 200th character, or "Could not read error body"
\* when the body cannot be read; serverTime is null, clientTime is the time
\* elapsed when the error is caught, and nothing of the body as JSON shows
\* in the result.
C21_HttpErrorMessage ==
    (fetchOut # NoFetch /\ fetchIn.kind = "http") =>
        LET shown == IF Len(fetchIn.body) <= 200 THEN Len(fetchIn.body) ELSE 200
            text == IF fetchIn.bodyReadable THEN FirstChars(fetchIn.body, shown)
                    ELSE "Could not read error body"
        IN  /\ fetchOut.settled = "fulfilled"
            /\ fetchOut.value.error =
                  "HTTP " \o ToString(fetchIn.status) \o " " \o fetchIn.statusText
                          \o ": " \o text
            /\ fetchOut.value.serverTime = NullNum
            /\ fetchOut.value.clientTime = fetchIn.caughtAt
            /\ fetchOut.value.binding \in {"Error", "Fetch Error"}

\* a 500 whose body has 250 characters and would parse as a complete
\* QueryResponse
C21_Witness ==
    /\ fetchOut # NoFetch
    /\ fetchIn.kind = "http"
    /\ fetchIn.status = 500
    /\ fetchIn.bodyReadable
    /\ Len(fetchIn.body) = 250
    /\ fetchIn.timeMs = 8
    /\ fetchOut.value.serverTime = NullNum
    /\ fetchOut.value.error =
          "HTTP 500 Internal Server Error: " \o FirstChars(fetchIn.body, 200)

----------------------------------------------------------------------------
(* Properties of the best/worst markers (specification SpecAgg) *)

\* a <= b on fractions with positive denominators
AtMost(a, b) == a[1] * b[2] <= b[1] * a[2]

\* the averages of the metric that are not null
AveragesPresent(averages, metric) ==
    {averages[id][metric] : id \in DOMAIN averages} \ {NullAvg}

\* best and worst are the least and the greatest of the averages of the
\* metric that are not null, and null when there is none
AreBestAndWorst(best, worst, averages, metric) ==
    LET present == AveragesPresent(averages, metric)
    IN  IF present = {} THEN best = NullAvg /\ worst = NullAvg
        ELSE /\ best \in present
             /\ worst \in present
             /\ \A x \in present : AtMost(best, x) /\ AtMost(x, worst)
             /\ AtMost(best, worst)

\* C22: after calculateAverages in the serial variant bestAvgClientTime is
\* the minimum and worstAvgClientTime the maximum of the avgClientTime values
\* that are not null, and likewise for the server time; both markers of a
\* metric are null exactly when no endpoint has an average of it, and
\* otherwise best <= worst.
C22_MarkersAreMinAndMax ==
    (aggOut # <<>> /\ variant = "serial") =>
        /\ AreBestAndWorst(aggOut.markers.bestAvgClientTime,
                           aggOut.markers.worstAvgClientTime,
                           aggOut.averageResults, "avgClientTime")
        /\ AreBestAndWorst(aggOut.markers.bestAvgServerTime,
                           aggOut.markers.worstAvgServerTime,
                           aggOut.averageResults, "avgServerTime")
        /\ (aggOut.markers.bestAvgClientTime = NullAvg
               <=> aggOut.markers.worstAvgClientTime = NullAvg)
        /\ (aggOut.markers.bestAvgServerTime = NullAvg
               <=> aggOut.markers.worstAvgServerTime = NullAvg)

\* the specification's scenario in the serial variant: B is the slower
\* endpoint for the client and the faster one on the server
C22_Witness ==
    /\ variant = "serial"
    /\ aggOut # <<>>
    /\ aggRuns = ScenarioRuns
    /\ aggOut.markers = [bestAvgClientTime |-> <<85, 2>>, worstAvgClientTime |-> <<70, 1>>,
                         bestAvgServerTime |-> <<6, 1>>, worstAvgServerTime |-> <<17, 2>>]

----------------------------------------------------------------------------
(* SpecRerun: runBenchmark started after an earlier run has ended.  The     *)
(* earlier run either completed (all rounds recorded, averages calculated)  *)
(* or was stopped after its first round by an exception.                    *)

\* what every fetch of the earlier run returned
EarlierResult == Result(33, 5, "db", NullStr)

EarlierRecords(rounds) ==
    [k \in 1..rounds |->
        [runId |-> k, results |-> [id \in EndpointIds |-> EarlierResult]]]

\* the state a completed run leaves behind, and the state a run leaves
\* behind that an exception stopped after round 1
EarlierRuns(v) ==
    LET runs == EarlierRecords(RUN_COUNT)
        out == calculateAverages(v, runs, initialAverageResults, NoMarkers)
    IN  {[benchmarkRuns |-> runs, overallError |-> NullStr,
          averageResults |-> out.averageResults, markers |-> out.markers,
          rounds |-> RUN_COUNT],
         [benchmarkRuns |-> EarlierRecords(1), overallError |-> "connection lost",
          averageResults |-> initialAverageResults, markers |-> NoMarkers,
          rounds |-> 1]}

InitRerun ==
    /\ variant \in Variants
    /\ \E earlier \in EarlierRuns(variant) :
        /\ benchmarkRuns = earlier.benchmarkRuns
        /\ overallError = earlier.overallError
        /\ averageResults = earlier.averageResults
        /\ markers = earlier.markers
        /\ issued = [key \in Keys |->
                        IF key[1] <= earlier.rounds THEN 1 ELSE 0]
        /\ returned = [key \in Keys |->
                        IF key[1] <= earlier.rounds
                        THEN Fulfilled(EarlierResult) ELSE NoFetch]
    /\ isLoading = FALSE
    /\ acts = <<>>
    /\ fetchIn = Outcome("reject", NullNum, 1, "", NullNum, NullStr, NullStr)
    /\ fetchOut = NoFetch
    /\ aggRuns = <<>>
    /\ aggOut = <<>>
    /\ arrays = ArraysOf(ENDPOINTS)
    /\ shuffledRef = "none"
    /\ randomIndices = <<>>
    /\ request = Idle
    /\ response = Idle
    /\ handler = Idle

SpecRerun == InitRerun /\ [][Next]_vars

----------------------------------------------------------------------------
(* Properties of the reset at the start of a run (specification SpecRerun) *)

\* the state is one an earlier run left behind: no click has followed yet
EarlierRunShown ==
    /\ ~isLoading
    /\ \E earlier \in EarlierRuns(variant) :
        /\ benchmarkRuns = earlier.benchmarkRuns
        /\ overallError = earlier.overallError
        /\ averageResults = earlier.averageResults
        /\ markers = earlier.markers

\* nothing of the earlier run is in the displayed state
NothingOfEarlierRun ==
    /\ \A k \in 1..Len(benchmarkRuns) : \A id \in DOMAIN benchmarkRuns[k].results :
            benchmarkRuns[k].results[id] # EarlierResult
    /\ \A id \in EndpointIds :
            /\ averageResults[id].avgClientTime # <<EarlierResult.clientTime, 1>>
            /\ averageResults[id].avgServerTime # <<EarlierResult.serverTime, 1>>
    /\ \A marker \in DOMAIN markers :
            /\ markers[marker] # <<EarlierResult.clientTime, 1>>
            /\ markers[marker] # <<EarlierResult.serverTime, 1>>
    /\ overallError # "connection lost"

\* the state right after the reset and the publication of round 1
FreshRun ==
    /\ benchmarkRuns = <<[runId |-> 1, results |-> Placeholders]>>
    /\ averageResults = initialAverageResults
    /\ markers = NoMarkers
    /\ overallError = NullStr

\* C23: the start of a new run clears benchmarkRuns and resets every
\* average, every marker and overallError to null before the record of the
\* first round is published: the state after the click holds the pending
\* record of round 1 alone, and no record and no aggregate of the earlier run
\* is in any later state.
C23_NewRunStartsClean ==
    /\ [][StartsRun => FreshRun']_vars
    /\ [](EarlierRunShown \/ NothingOfEarlierRun)

\* round 2 of the new run that followed a completed run, with results of
\* its own in round 1
C23_Witness ==
    /\ isLoading
    /\ Len(benchmarkRuns) = 2
    /\ AllTerminal(benchmarkRuns[1])
    /\ NothingOfEarlierRun
    /\ averageResults = initialAverageResults

----------------------------------------------------------------------------
(* Properties of the shape of a measureFetch result (specification SpecFetch) *)

\* the call did not get a body that parses to JSON: the fetch rejected, the
\* status was not ok, or the body was no JSON or the JSON null
NoJsonBody == fetchIn.kind \in {"reject", "http", "badjson", "jsonnull"}

\* the result is the one the catch block builds
FromCatchBlock(result) == result.binding \in {"Error", "Fetch Error"}

\* C27: a result of measureFetch with error null has a numeric clientTime,
\* a numeric serverTime and a string binding, both taken from the body; a
\* result of the failure path has an error that is neither null nor empty
\* and a null serverTime; so no result has a null error together with a null
\* time.
C27_ResultShape ==
    fetchOut # NoFetch =>
        LET result == fetchOut.value
        IN  /\ fetchOut.settled = "fulfilled"
            /\ result.error = NullStr =>
                    /\ ~NoJsonBody
                    /\ IsNumber(result.clientTime)
                    /\ IsNumber(result.serverTime)
                    /\ result.serverTime = fetchIn.timeMs
                    /\ result.binding # NullStr
                    /\ result.binding = fetchIn.binding
            /\ NoJsonBody => FromCatchBlock(result)
            /\ FromCatchBlock(result) =>
                    /\ result.error # NullStr
                    /\ result.error # ""
                    /\ result.serverTime = NullNum
                    /\ IsNumber(result.clientTime)
            /\ ~(result.error = NullStr
                   /\ (result.clientTime = NullNum \/ result.serverTime = NullNum))

\* a fetch that rejected with an empty message: the failure path gives the
\* default message
C27_Witness ==
    /\ fetchOut # NoFetch
    /\ fetchIn.kind = "reject"
    /\ fetchIn.message = ""
    /\ fetchOut.value.error = "Unknown fetch error"
    /\ fetchOut.value.serverTime = NullNum

----------------------------------------------------------------------------
(* Properties of the averages on display (specification SpecFault) *)

SomeAverage ==
    \E id \in EndpointIds :
        \/ averageResults[id].avgClientTime # NullAvg
        \/ averageResults[id].avgServerTime # NullAvg

\* C28: in every state in which some endpoint's avgClientTime or
\* avgServerTime is not null, all RUN_COUNT rounds are recorded, no entry of
\* a record is the "Pending..." placeholder, and overallError is null.
C28_AveragesOnlyAfterCleanRun ==
    SomeAverage =>
        /\ Len(benchmarkRuns) = RUN_COUNT
        /\ \A k \in 1..Len(benchmarkRuns) : AllTerminal(benchmarkRuns[k])
        /\ overallError = NullStr

----------------------------------------------------------------------------
(* The server side: the dynamic route src/routes/api/[endpoint]/+server.ts. *)
(* Paths and query values are texts (sequences of characters), so that the  *)
(* pattern of the route and parseInt see what the client wrote.             *)

\* searchParams.get(name) of a parameter that is absent
NullText == <<"<null>">>

DigitChars == {"0", "1", "2", "3", "4", "5", "6", "7", "8", "9"}

\* \d+
IsDigits(text) ==
    Len(text) >= 1 /\ \A k \in 1..Len(text) : text[k] \in DigitChars

\* `${n}` of a number n >= 0 that is an integer
RECURSIVE Decimal(_)
Decimal(n) ==
    IF n < 10 THEN <<ToString(n)>>
    ELSE Decimal(n \div 10) \o <<ToString(n % 10)>>

RECURSIVE ValueOfDigits(_)
ValueOfDigits(digits) ==
    IF digits = <<>> THEN 0
    ELSE 10 * ValueOfDigits(SubSeq(digits, 1, Len(digits) - 1))
            + (CHOOSE d \in 0..9 : ToString(d) = digits[Len(digits)])

\* the text without its first n characters
DropFirst(text, n) == SubSeq(text, n + 1, Len(text))

\* parseInt(text, 10): white space, a sign, and the longest run of digits;
\* NaN when there is no digit
ParseInt(text) ==
    LET blanks == CHOOSE n \in 0..Len(text) :
                    /\ \A k \in 1..n : text[k] = " "
                    /\ n < Len(text) => text[n + 1] # " "
        trimmed == DropFirst(text, blanks)
        signed == trimmed # <<>> /\ trimmed[1] \in {"-", "+"}
        unsigned == IF signed THEN Tail(trimmed) ELSE trimmed
        run == CHOOSE n \in 0..Len(unsigned) :
                    /\ \A k \in 1..n : unsigned[k] \in DigitChars
                    /\ n < Len(unsigned) => unsigned[n + 1] \notin DigitChars
        magnitude == ValueOfDigits(SubSeq(unsigned, 1, run))
    IN  IF run = 0 THEN [nan |-> TRUE, value |-> 0]
        ELSE [nan |-> FALSE,
              value |-> IF signed /\ trimmed[1] = "-" THEN 0 - magnitude ELSE magnitude]

\* the words of the endpoint names
Word ==
    [cached |-> <<"c", "a", "c", "h", "e", "d">>,
     non |-> <<"n", "o", "n">>,
     query |-> <<"q", "u", "e", "r", "y">>,
     us |-> <<"u", "s">>,
     east |-> <<"e", "a", "s", "t">>,
     west |-> <<"w", "e", "s", "t">>,
     bun |-> <<"b", "u", "n">>,
     hel |-> <<"h", "e", "l">>]

\* the name made of the words, joined by hyphens
RECURSIVE Name(_)
Name(words) ==
    IF Len(words) = 1 THEN Word[words[1]]
    ELSE Name(SubSeq(words, 1, Len(words) - 1)) \o <<"-">> \o Word[words[Len(words)]]

\* the alternatives of the first group of ENDPOINT_PATTERN, in their order
PatternNames ==
    <<Name(<<"cached", "query">>),
      Name(<<"non", "cached", "query">>),
      Name(<<"cached", "query", "us", "east">>),
      Name(<<"non", "cached", "query", "us", "east">>),
      Name(<<"cached", "query", "us", "west">>),
      Name(<<"non", "cached", "query", "us", "west">>),
      Name(<<"bun", "cached", "hel">>),
      Name(<<"bun", "non", "cached", "hel">>),
      Name(<<"bun", "cached", "us", "east">>),
      Name(<<"bun", "non", "cached", "us", "east">>),
      Name(<<"bun", "cached", "us", "west">>),
      Name(<<"bun", "non", "cached", "us", "west">>)>>

EndpointConfig(displayName, isCached, type) ==
    [displayName |-> displayName, cached |-> isCached, type |-> type]

\* const ENDPOINT_CONFIG: Record<string, EndpointConfig>
ENDPOINT_CONFIG ==
    (Name(<<"cached", "query">>) :>
        EndpointConfig("CACHED_DB_HELSINKI", TRUE, "hyperdrive"))
    @@ (Name(<<"non", "cached", "query">>) :>
        EndpointConfig("NON_CACHED_DB_HELSINKI", FALSE, "hyperdrive"))
    @@ (Name(<<"bun", "cached", "hel">>) :>
        EndpointConfig("BUN_REST_CACHED_HELSINKI", TRUE, "bun-rest-proxy"))
    @@ (Name(<<"bun", "non", "cached", "hel">>) :>
        EndpointConfig("BUN_REST_NON_CACHED_HELSINKI", FALSE, "bun-rest-proxy"))
    @@ (Name(<<"cached", "query", "us", "east">>) :>
        EndpointConfig("CACHED_DB_US_EAST", TRUE, "hyperdrive"))
    @@ (Name(<<"non", "cached", "query", "us", "east">>) :>
        EndpointConfig("NON_CACHED_DB_US_EAST", FALSE, "hyperdrive"))
    @@ (Name(<<"bun", "cached", "us", "east">>) :>
        EndpointConfig("BUN_REST_CACHED_US_EAST", TRUE, "bun-rest-proxy"))
    @@ (Name(<<"bun", "non", "cached", "us", "east">>) :>
        EndpointConfig("BUN_REST_NON_CACHED_US_EAST", FALSE, "bun-rest-proxy"))
    @@ (Name(<<"cached", "query", "us", "west">>) :>
        EndpointConfig("CACHED_DB_US_WEST", TRUE, "hyperdrive"))
    @@ (Name(<<"non", "cached", "query", "us", "west">>) :>
        EndpointConfig("NON_CACHED_DB_US_WEST", FALSE, "hyperdrive"))
    @@ (Name(<<"bun", "cached", "us", "west">>) :>
        EndpointConfig("BUN_REST_CACHED_US_WEST", TRUE, "bun-rest-proxy"))
    @@ (Name(<<"bun", "non", "cached", "us", "west">>) :>
        EndpointConfig("BUN_REST_NON_CACHED_US_WEST", FALSE, "bun-rest-proxy"))

StartsWith(text, prefix) ==
    Len(prefix) <= Len(text) /\ SubSeq(text, 1, Len(prefix)) = prefix

\* (-\d+-\d+|-\d+)
MatchesSuffix(text) ==
    /\ Len(text) >= 2
    /\ text[1] = "-"
    /\ \/ IsDigits(Tail(text))
       \/ \E k \in 3..(Len(text) - 1) :
            /\ text[k] = "-"
            /\ IsDigits(SubSeq(text, 2, k - 1))
            /\ IsDigits(SubSeq(text, k + 1, Len(text)))

\* null, or match[1], the name, and match[2], the suffix (<<>> for undefined)
MatchResult(matched, name, suffix) ==
    [matched |-> matched, base |-> name, suffix |-> suffix]

\* Faulty variant of the match: the first name that begins the text is
\* taken, and no later alternative is tried when the rest does not fit.
MatchWithoutBacktracking(text) ==
    LET begins == {i \in 1..Len(PatternNames) : StartsWith(text, PatternNames[i])}
    IN  IF begins = {} THEN MatchResult(FALSE, <<>>, <<>>)
        ELSE LET i == CHOOSE j \in begins : \A l \in begins : j <= l
                 rest == DropFirst(text, Len(PatternNames[i]))
             IN  IF rest = <<>> \/ MatchesSuffix(rest)
                 THEN MatchResult(TRUE, PatternNames[i], rest)
                 ELSE MatchResult(FALSE, <<>>, <<>>)

\* dynamicEndpoint.match(ENDPOINT_PATTERN): the first alternative, in the
\* order of the pattern, with which the whole text matches
Match(text) ==
    LET fits == {i \in 1..Len(PatternNames) :
                    /\ StartsWith(text, PatternNames[i])
                    /\ LET rest == DropFirst(text, Len(PatternNames[i]))
                       IN  rest = <<>> \/ MatchesSuffix(rest)}
    IN  IF fits = {} THEN MatchResult(FALSE, <<>>, <<>>)
        ELSE LET i == CHOOSE j \in fits : \A l \in fits : j <= l
             IN  MatchResult(TRUE, PatternNames[i], DropFirst(text, Len(PatternNames[i])))

\* parseInt(cdnCache, 10) || 30
DefaultCacheTtl == 30

\* const cacheTtl = cdnCache ? parseInt(cdnCache, 10) || 30 : 0;
cacheTtl(cdnCache) ==
    IF cdnCache = NullText \/ cdnCache = <<>> THEN 0
    ELSE LET parsed == ParseInt(cdnCache)
         IN  IF parsed.nan \/ parsed.value = 0 THEN DefaultCacheTtl
             ELSE parsed.value

\* What the database or the upstream REST API does with the one call of the
\* handler:
\*   "rows"    the query resolves with a city          (hyperdrive)
\*   "empty"   the query resolves with no row          (hyperdrive)
\*   "throws"  the query or the fetch rejects with message
\*   "notok"   the upstream answers with a status that is not ok
\*   "json"    the upstream answers 200 with a body {data, timeMs, error}
ServerOutcome(kind, message, timeMs, data, error) ==
    [kind |-> kind, message |-> message, timeMs |-> timeMs, data |-> data,
     error |-> error]

City == "Helsinki"
NullData == "<no data>"

\* A request to /api/[endpoint]: params.endpoint, the cdnCache parameter,
\* what platform holds, and what the database or the upstream will do.
\* builtFrom is the endpoint name of the registry url the client built the
\* path from (NullText for a request the page did not send).
EndpointRequest(endpoint, cdnCache, platform, binding, waitUntil, outcome, builtFrom) ==
    [kind |-> "endpoint", endpoint |-> endpoint, cdnCache |-> cdnCache,
     platform |-> platform, binding |-> binding, waitUntil |-> waitUntil,
     colo |-> "HEL", outcome |-> outcome, builtFrom |-> builtFrom]

\* throw svelteError(status, message)
SvelteError(status, message) ==
    [kind |-> "error", status |-> status, message |-> message]

NoHeaders ==
    [CacheControl |-> NullStr, Vary |-> NullStr, CDNCacheControl |-> NullStr,
     Pragma |-> NullStr, Expires |-> NullStr, SurrogateControl |-> NullStr]

\* response.headers.set("Cache-Control",
\*     `public, max-age=${cacheTtl}, s-maxage=${cacheTtl}`) ...
PublicHeaders(ttl) ==
    [NoHeaders EXCEPT
        !.CacheControl = "public, max-age=" \o ToString(ttl)
                            \o ", s-maxage=" \o ToString(ttl),
        !.Vary = "Origin",
        !.CDNCacheControl = "max-age=" \o ToString(ttl)]

NoStoreHeaders ==
    [NoHeaders EXCEPT
        !.CacheControl = "no-store, no-cache, must-revalidate, proxy-revalidate, max-age=0",
        !.Pragma = "no-cache",
        !.Expires = "0",
        !.SurrogateControl = "no-store"]

\* Faulty variant of the headers: a request for CDN caching is honoured on a
\* dynamic path too.
CacheHeadersIgnoringPath(ttl, isDynamicPath) ==
    IF ttl > 0 THEN PublicHeaders(ttl) ELSE NoStoreHeaders

\* if (cacheTtl > 0 && !isDynamicPath) { ... } else { ... }
CacheHeaders(ttl, isDynamicPath) ==
    IF ttl > 0 /\ ~isDynamicPath THEN PublicHeaders(ttl) ELSE NoStoreHeaders

\* what a branch of the handler leaves in results, errorMsg and serverTimeMs,
\* and whether it created a postgres client
Flow(results, errorMsg, serverTimeMs, client) ==
    [results |-> results, errorMsg |-> errorMsg, serverTimeMs |-> serverTimeMs,
     client |-> client]

\* errorMsg = e.message || "An unknown database error occurred";
QueryError(message) == OrElse(message, "An unknown database error occurred")

\* the try and catch blocks of the hyperdrive branch
HyperdriveFlow(req) ==
    IF req.binding = "invalid"
    THEN Flow(<<>>, "Invalid or missing connection string in binding.", 0, FALSE)
    ELSE CASE req.outcome.kind = "rows" ->
                Flow(<<City>>, NullStr, req.outcome.timeMs, TRUE)
           [] req.outcome.kind = "empty" ->
                Flow(<<>>, NullStr, req.outcome.timeMs, TRUE)
           [] OTHER ->
                Flow(<<>>, QueryError(req.outcome.message), 0, TRUE)

\* the try and catch blocks of the bun-rest-proxy branch
ProxyFlow(req) ==
    CASE req.outcome.kind = "json" ->
            Flow(IF req.outcome.data = NullData THEN <<>> ELSE <<req.outcome.data>>,
                 IF req.outcome.error = NullStr \/ req.outcome.error = ""
                 THEN NullStr ELSE req.outcome.error,
                 req.outcome.timeMs, FALSE)
      [] req.outcome.kind = "notok" ->
            Flow(<<>>, "REST API returned " \o req.outcome.message, 0, FALSE)
      [] OTHER ->
            Flow(<<>>,
                 OrElse(req.outcome.message,
                        "An unknown error occurred while calling the REST API"),
                 0, FALSE)

\* const response = json(responseData) and its cache headers; end() was
\* initiated once when a client was created
JsonResponse(req, match, ttl, config, flow) ==
    [kind |-> "json", status |-> 200,
     body |-> [data |-> IF flow.results # <<>> THEN flow.results[1] ELSE NullData,
               timeMs |-> flow.serverTimeMs,
               binding |-> config.displayName,
               error |-> flow.errorMsg,
               dynamicPath |-> match.suffix # <<>>,
               originalEndpoint |-> match.base,
               colo |-> OrElse(req.colo, "")],
     headers |-> CacheHeaders(ttl, match.suffix # <<>>),
     client |-> flow.client,
     endCalls |-> IF flow.client THEN 1 ELSE 0]

\* export const GET: RequestHandler
GET(req) ==
    LET match == Match(req.endpoint)
    IN  IF ~match.matched
        THEN SvelteError(404, "Unknown endpoint format: " \o Join(req.endpoint))
        ELSE IF match.base \notin DOMAIN ENDPOINT_CONFIG
        THEN SvelteError(404, "Unknown endpoint: " \o Join(match.base))
        ELSE LET config == ENDPOINT_CONFIG[match.base]
                 ttl == cacheTtl(req.cdnCache)
             IN  IF req.platform # "env"
                 THEN SvelteError(500, "Server environment not available")
                 ELSE IF config.type = "hyperdrive"
                 THEN IF req.binding = "missing"
                      THEN SvelteError(500, "Configuration Error: "
                                \o config.displayName \o " binding not found.")
                      ELSE JsonResponse(req, match, ttl, config, HyperdriveFlow(req))
                 ELSE JsonResponse(req, match, ttl, config, ProxyFlow(req))

----------------------------------------------------------------------------
(* The paths the page requests (serial variant, measureFetch of app.d.ts)  *)

\* Math.floor(Math.random() * 1000)
RandomRange == 1000

\* the urls of ENDPOINTS in app.d.ts, /api/<endpoint>?<param>=<value>:
\* ?cdnCache=30 on the cached endpoints, ?_nc=true on the others
RegistryUrls ==
    {[endpoint |-> name,
      param |-> IF ENDPOINT_CONFIG[name].cached THEN "cdnCache" ELSE "_nc",
      value |-> IF ENDPOINT_CONFIG[name].cached THEN <<"3", "0">>
                ELSE <<"t", "r", "u", "e">>] :
        name \in DOMAIN ENDPOINT_CONFIG}

\* const uniqueEndpoint = `${baseEndpoint}-${timestamp}-${randomSuffix}`;
uniqueEndpoint(baseEndpoint, timestamp, randomSuffix) ==
    baseEndpoint \o <<"-">> \o timestamp \o <<"-">> \o Decimal(randomSuffix)

\* fetchUrl: the path of a url with _nc is replaced by a unique one
fetchUrl(url, timestamp, randomSuffix) ==
    IF url.param = "_nc"
    THEN [url EXCEPT !.endpoint = uniqueEndpoint(url.endpoint, timestamp, randomSuffix)]
    ELSE url

----------------------------------------------------------------------------
(* SpecEndpoint: one request to the dynamic route and its answer *)

HyperdriveOutcomes ==
    {ServerOutcome("rows", "", 12, City, NullStr),
     ServerOutcome("empty", "", 3, NullData, NullStr),
     ServerOutcome("throws", "connection refused", 0, NullData, NullStr),
     ServerOutcome("throws", "", 0, NullData, NullStr)}

\* the outcomes of the query of a hyperdrive endpoint, and of the fetch of
\* a proxy endpoint
OutcomesOf(name) ==
    IF ENDPOINT_CONFIG[name].type = "hyperdrive"
    THEN HyperdriveOutcomes
    ELSE {ServerOutcome("json", "", 9, City, NullStr),
          ServerOutcome("json", "", 4, NullData, "relation does not exist"),
          ServerOutcome("notok", "500: upstream failed", 0, NullData, NullStr),
          ServerOutcome("throws", "fetch failed", 0, NullData, NullStr),
          ServerOutcome("throws", "", 0, NullData, NullStr)}

\* the outcome in which nothing fails
CleanOutcome(name) ==
    IF ENDPOINT_CONFIG[name].type = "hyperdrive"
    THEN ServerOutcome("rows", "", 12, City, NullStr)
    ELSE ServerOutcome("json", "", 9, City, NullStr)

\* paths written by hand: a name, a name with one numeric part or with two
PathsOf(name) ==
    {name,
     name \o <<"-", "5">>,
     uniqueEndpoint(name, TextOfLength(13), 42)}

\* The requests of a page with the registry urls: every url, with every
\* time stamp (`${Date.now()}`: the digits of a time stamp of today, and of
\* an early one) and every random suffix where the path is made unique.
\* The requests written by hand: with every outcome of the database or the
\* upstream; to a deployment without platform.env, without the binding, or
\* with a binding that holds no connection string; to unknown paths.
EndpointRequests(urls) ==
    LET names == DOMAIN ENDPOINT_CONFIG
        \* values of the cdnCache parameter: absent, empty, numbers, and texts
        \* that parseInt reads in part or not at all
        CdnCacheValues ==
            {NullText, <<>>, <<"3", "0">>, <<"6", "0">>, <<"0">>, <<"a", "b", "c">>,
             <<"-", "5">>, <<"1", "2", "a">>, <<" ", "7">>}
        \* texts the pattern does not match
        UnknownPaths ==
            {Word.cached,
             Name(<<"cached", "query", "us">>),
             Name(<<"non", "cached", "query">>) \o <<"-">>,
             Name(<<"non", "cached", "query">>) \o <<"-", "1", "2", "a">>,
             Name(<<"cached", "query">>) \o <<"-", "1", "-", "2", "-", "3">>,
             <<"x">> \o Name(<<"cached", "query">>)}
        PageRequest(url, sent) ==
            EndpointRequest(sent.endpoint,
                            IF sent.param = "cdnCache" THEN sent.value ELSE NullText,
                            "env", "connection", TRUE, CleanOutcome(url.endpoint),
                            url.endpoint)
        PageRequests ==
            UNION {{PageRequest(url, fetchUrl(url, timestamp, randomSuffix)) :
                        timestamp \in {TextOfLength(13), Decimal(1)},
                        randomSuffix \in 0..(RandomRange - 1)} :
                   url \in urls}
        WorkingRequests ==
            UNION {{EndpointRequest(path, cdnCache, "env", "connection", waitUntil,
                                    outcome, NullText) :
                        path \in PathsOf(name), cdnCache \in CdnCacheValues,
                        waitUntil \in BOOLEAN, outcome \in OutcomesOf(name)} :
                   name \in names}
        MisconfiguredRequests ==
            UNION {{EndpointRequest(path, cdnCache, deployment[1], deployment[2],
                                    TRUE, CleanOutcome(name), NullText) :
                        path \in PathsOf(name), cdnCache \in {NullText, <<"3", "0">>},
                        deployment \in {<<"none", "connection">>, <<"env", "missing">>,
                                        <<"env", "invalid">>}} :
                   name \in names}
        UnknownRequests ==
            {EndpointRequest(path, cdnCache, "env", "connection", TRUE,
                             ServerOutcome("rows", "", 12, City, NullStr), NullText) :
                path \in UnknownPaths, cdnCache \in {NullText, <<"3", "0">>}}
    IN  PageRequests \cup WorkingRequests \cup MisconfiguredRequests
            \cup UnknownRequests

InitEndpoint ==
    /\ variant = "serial"
    /\ benchmarkRuns = <<>>
    /\ isLoading = FALSE
    /\ overallError = NullStr
    /\ averageResults = initialAverageResults
    /\ markers = NoMarkers
    /\ acts = <<>>
    /\ issued = NoneIssued
    /\ returned = NoneReturned
    /\ fetchIn = Outcome("reject", NullNum, 1, "", NullNum, NullStr, NullStr)
    /\ fetchOut = NoFetch
    /\ aggRuns = <<>>
    /\ aggOut = <<>>
    /\ arrays = ArraysOf(ENDPOINTS)
    /\ shuffledRef = "none"
    /\ randomIndices = <<>>
    /\ request \in EndpointRequests(RegistryUrls)
    /\ response = Idle
    /\ handler = Idle

\* the route answers the request
HandleGET ==
    /\ request.kind = "endpoint"
    /\ response = Idle
    /\ response' = GET(request)
    /\ UNCHANGED <<variant, orchVars, fetchVars, aggVars, shuffleVars, request, handler>>

SpecEndpoint == InitEndpoint /\ [][HandleGET]_vars

----------------------------------------------------------------------------
(* Properties of the dynamic route (specification SpecEndpoint) *)

Answered == response # Idle

\* C29: every unique path the page builds for an endpoint without caching
\* matches ENDPOINT_PATTERN, is resolved to the endpoint name it was built
\* from, also where that name extends another name of the pattern, and is
\* classified as a dynamic path; it is not answered with 404.
C29_UniquePathsResolve ==
    (Answered /\ request.builtFrom # NullText /\ request.endpoint # request.builtFrom) =>
        /\ Match(request.endpoint).matched
        /\ Match(request.endpoint).base = request.builtFrom
        /\ Match(request.endpoint).suffix # <<>>
        /\ response.kind = "json"
        /\ response.status = 200
        /\ response.body.originalEndpoint = request.builtFrom
        /\ response.body.dynamicPath

\* the unique path of non-cached-query-us-east with the largest random
\* suffix, answered
C29_Witness ==
    /\ Answered
    /\ request.builtFrom = Name(<<"non", "cached", "query", "us", "east">>)
    /\ request.endpoint =
          uniqueEndpoint(Name(<<"non", "cached", "query", "us", "east">>),
                         TextOfLength(13), RandomRange - 1)
    /\ response.kind = "json"
    /\ response.body.originalEndpoint = Name(<<"non", "cached", "query", "us", "east">>)

\* what cacheTtl is to be for the values of cdnCache that are requested:
\* 0 without a value, the number where one is read that is not 0, else 30
ExpectedTtl(cdnCache) ==
    CASE cdnCache = NullText -> 0
      [] cdnCache = <<>> -> 0
      [] cdnCache = <<"3", "0">> -> 30
      [] cdnCache = <<"6", "0">> -> 60
      [] cdnCache = <<"0">> -> 30
      [] cdnCache = <<"a", "b", "c">> -> 30
      [] cdnCache = <<"-", "5">> -> 0 - 5
      [] cdnCache = <<"1", "2", "a">> -> 12
      [] cdnCache = <<" ", "7">> -> 7

PubliclyCacheable(headers) ==
    \E ttl \in 1..60 :
        headers.CacheControl = "public, max-age=" \o ToString(ttl)
                                  \o ", s-maxage=" \o ToString(ttl)

NoStore(headers) ==
    /\ headers.CacheControl
          = "no-store, no-cache, must-revalidate, proxy-revalidate, max-age=0"
    /\ headers.Pragma = "no-cache"
    /\ headers.Expires = "0"
    /\ headers.SurrogateControl = "no-store"
    /\ headers.Vary = NullStr
    /\ headers.CDNCacheControl = NullStr

\* C24: cacheTtl is 0 when cdnCache is absent or empty, the parsed integer
\* when it parses to a number that is not 0, and 30 otherwise; the response
\* carries 'Cache-Control: public, max-age=cacheTtl, s-maxage=cacheTtl'
\* exactly when cacheTtl > 0 and the path has no numeric suffix, and the
\* no-store headers in every other case; the response to a dynamic path is
\* never publicly cacheable.
C24_CacheHeaders ==
    (Answered /\ response.kind = "json") =>
        LET ttl == ExpectedTtl(request.cdnCache)
            headers == response.headers
        IN  /\ cacheTtl(request.cdnCache) = ttl
            /\ IF ttl > 0 /\ request.endpoint \in DOMAIN ENDPOINT_CONFIG
               THEN /\ headers.CacheControl = "public, max-age=" \o ToString(ttl)
                                                 \o ", s-maxage=" \o ToString(ttl)
                    /\ ~response.body.dynamicPath
               ELSE NoStore(headers)
            /\ response.body.dynamicPath => ~PubliclyCacheable(headers)
            /\ response.body.dynamicPath <=> request.endpoint \notin DOMAIN ENDPOINT_CONFIG

\* a request for caching on a unique path: cdnCache=60 on
\* cached-query-<time stamp>-42 is answered with the no-store headers
C24_Witness ==
    /\ Answered
    /\ request.endpoint = uniqueEndpoint(Name(<<"cached", "query">>), TextOfLength(13), 42)
    /\ request.cdnCache = <<"6", "0">>
    /\ response.kind = "json"
    /\ response.body.dynamicPath
    /\ NoStore(response.headers)

\* C30: no response whose body reports an error (error not null, from a
\* failed query or a failed call of the upstream) carries public cache
\* headers, also when the request asks for CDN caching with cdnCache.
C30_ErrorsNeverCacheable ==
    (Answered /\ response.kind = "json" /\ response.body.error # NullStr) =>
        /\ ~PubliclyCacheable(response.headers)
        /\ NoStore(response.headers)

----------------------------------------------------------------------------
(* The Bun REST API of bun-restful-api.ts, and SpecBun: one request to it  *)
(* and its answer.                                                          *)

ALLOWED_ORIGINS == {"https://bunvhd.tripcafe.org"}

isOriginAllowed(origin) ==
    /\ origin # NullStr
    /\ origin # ""
    \* in the list, or matched by /^https?:\/\/localhost(:\d+)?$/
    /\ origin \in ALLOWED_ORIGINS \cup {"http://localhost:5173"}

\* async function getRandomCity()
getRandomCity(outcome) ==
    CASE outcome.kind = "rows" ->
            [data |-> outcome.data, timeMs |-> outcome.timeMs, error |-> NullStr]
      [] outcome.kind = "empty" ->
            [data |-> NullData, timeMs |-> outcome.timeMs, error |-> NullStr]
      [] OTHER ->
            [data |-> NullData, timeMs |-> outcome.timeMs,
             error |-> OrElse(outcome.message, "An unknown database error occurred")]

BunHeaders(cacheControl, allowOrigin, vary) ==
    [CacheControl |-> cacheControl, AccessControlAllowOrigin |-> allowOrigin,
     Vary |-> vary]

\* function generateCacheHeaders(searchParams)
generateCacheHeaders(cacheTtlParam) ==
    IF cacheTtlParam # NullText /\ cacheTtlParam # <<>> /\ IsDigits(cacheTtlParam)
    THEN "public, max-age=" \o ToString(ParseInt(cacheTtlParam).value)
    ELSE "no-store"

\* Faulty variant of the headers of an error: the cache headers of the
\* request stay.
ErrorHeadersKeepingCache(responseHeaders) == responseHeaders

\* responseHeaders["Cache-Control"] = "no-store";
ErrorHeaders(responseHeaders) == [responseHeaders EXCEPT !.CacheControl = "no-store"]

BunResponse(status, headers, body) ==
    [kind |-> "bun", status |-> status, headers |-> headers, body |-> body]

\* async fetch(req)
fetch(req) ==
    LET allowed == isOriginAllowed(req.origin)
    IN  IF req.method = "OPTIONS"
        THEN BunResponse(204,
                         IF allowed THEN BunHeaders(NullStr, req.origin, "Origin")
                         ELSE BunHeaders(NullStr, NullStr, NullStr),
                         [text |-> ""])
        ELSE IF req.pathname = "/" /\ req.method = "GET"
        THEN LET cacheHeaders == generateCacheHeaders(req.cacheTtl)
                 responseHeaders ==
                    IF allowed THEN BunHeaders(cacheHeaders, req.origin, "Origin")
                    ELSE BunHeaders(cacheHeaders, NullStr, NullStr)
                 city == getRandomCity(req.outcome)
             IN  IF city.error # NullStr /\ city.error # ""
                 THEN BunResponse(500, ErrorHeaders(responseHeaders),
                                  [error |-> city.error, data |-> NullData,
                                   timeMs |-> city.timeMs, binding |-> NullStr])
                 ELSE BunResponse(200, responseHeaders,
                                  [error |-> NullStr, data |-> city.data,
                                   timeMs |-> city.timeMs, binding |-> "DATABASE_URL"])
        ELSE BunResponse(404, BunHeaders("no-store", NullStr, NullStr),
                         [text |-> "Not Found"])

\* the requests: methods, paths, values of the cacheTtl parameter, Origin
\* headers (absent, allowed, localhost, foreign) and outcomes of the query
BunRequests ==
    {[kind |-> "bun", method |-> method, pathname |-> pathname,
      cacheTtl |-> cacheTtlParam, origin |-> origin, outcome |-> outcome] :
        method \in {"GET", "OPTIONS", "POST"},
        pathname \in {"/", "/api/cached-query"},
        cacheTtlParam \in {NullText, <<>>, <<"6", "0">>, <<"0">>, <<"a", "b", "c">>,
                           <<"-", "5">>, <<"1", "2", "a">>},
        origin \in {NullStr, "https://bunvhd.tripcafe.org", "http://localhost:5173",
                    "https://other.example"},
        outcome \in HyperdriveOutcomes}

InitBun ==
    /\ variant = "serial"
    /\ benchmarkRuns = <<>>
    /\ isLoading = FALSE
    /\ overallError = NullStr
    /\ averageResults = initialAverageResults
    /\ markers = NoMarkers
    /\ acts = <<>>
    /\ issued = NoneIssued
    /\ returned = NoneReturned
    /\ fetchIn = Outcome("reject", NullNum, 1, "", NullNum, NullStr, NullStr)
    /\ fetchOut = NoFetch
    /\ aggRuns = <<>>
    /\ aggOut = <<>>
    /\ arrays = ArraysOf(ENDPOINTS)
    /\ shuffledRef = "none"
    /\ randomIndices = <<>>
    /\ request \in BunRequests
    /\ response = Idle
    /\ handler = Idle

\* the server answers the request
HandleFetch ==
    /\ request.kind = "bun"
    /\ response = Idle
    /\ response' = fetch(request)
    /\ UNCHANGED <<variant, orchVars, fetchVars, aggVars, shuffleVars, request, handler>>

SpecBun == InitBun /\ [][HandleFetch]_vars

----------------------------------------------------------------------------
(* Properties of the Bun REST API (specification SpecBun) *)

\* the request is a GET / whose database query fails
QueryFails ==
    /\ request.method = "GET"
    /\ request.pathname = "/"
    /\ request.outcome.kind = "throws"

\* C25: a GET / whose database query fails is answered with status 500 and
\* Cache-Control: no-store, whatever cacheTtl the request carries; a
\* response that reports an error is never sent with a public max-age.
C25_QueryFailureNotCached ==
    Answered =>
        /\ QueryFails =>
                /\ response.status = 500
                /\ response.headers.CacheControl = "no-store"
                /\ response.body.error # NullStr
                /\ response.body.error # ""
        /\ response.status >= 400 => response.headers.CacheControl = "no-store"
        /\ response.status = 200 => ~QueryFails /\ response.body.error = NullStr

\* the query fails without a message on a request with cacheTtl=60
C25_Witness ==
    /\ Answered
    /\ QueryFails
    /\ request.cacheTtl = <<"6", "0">>
    /\ request.outcome.message = ""
    /\ response.status = 500
    /\ response.body.error = "An unknown database error occurred"
    /\ response.headers.CacheControl = "no-store"

----------------------------------------------------------------------------
(* SpecClose: the handlers that open a postgres client, step by step.       *)
(*   "endpoint"        GET of routes/api/[endpoint]/+server.ts (hyperdrive) *)
(*   "us-east"         GET of routes/api/non-cached-query-us-east           *)
(*   "executeDbQuery"  the Bun server of src/unnamed/part_002               *)
(* An invocation is suspended at                                            *)
(*   pc  "query"     await sql`SELECT ...`                                  *)
(*       "race"      await Promise.race([closePromise, timer of 100 ms])    *)
(*       "awaitEnd"  await sql.end({ timeout: 5 })        (executeDbQuery)  *)
(* and ends with "returned" (a response was returned) or "threw".           *)

HandlerKinds == {"endpoint", "us-east", "executeDbQuery"}

\* the path each handler is mounted at
MountedAt(kind) ==
    CASE kind = "endpoint" -> Name(<<"cached", "query">>)
      [] kind = "us-east" -> Name(<<"non", "cached", "query", "us", "east">>)
      [] kind = "executeDbQuery" -> Name(<<"cached", "query">>)

\* the response the handler returns from its locals
ResponseOf(h, req) ==
    CASE h.kind = "endpoint" ->
            LET match == Match(req.endpoint)
            IN  JsonResponse(req, match, cacheTtl(req.cdnCache),
                             ENDPOINT_CONFIG[match.base],
                             Flow(h.results, h.errorMsg, h.timeMs, h.client))
      \* return json({ data, timeMs: duration, binding: bindingName, error })
      \* new Response(JSON.stringify(responsePayload), { status, headers })
      [] h.kind \in {"us-east", "executeDbQuery"} ->
            [kind |-> "json", status |-> 200,
             body |-> [data |-> IF h.results # <<>> THEN h.results[1] ELSE NullData,
                       timeMs |-> h.timeMs,
                       binding |-> IF h.kind = "us-east"
                                   THEN "NO_CACHED_DB_BUNVHD_US_EAST"
                                   ELSE "CACHED_DB_QUERY",
                       error |-> h.errorMsg],
             headers |-> NoHeaders]

\* Faulty variant of the close promise: no catch is attached to end().
ClosePromiseWithoutCatch(settled) == settled

\* sql.end({ timeout: 5 }).catch((err) => console.error(...)): the promise
\* resolves whether end() resolves or rejects
ClosePromise(settled) == "resolved"

InitClose ==
    /\ variant = "serial"
    /\ benchmarkRuns = <<>>
    /\ isLoading = FALSE
    /\ overallError = NullStr
    /\ averageResults = initialAverageResults
    /\ markers = NoMarkers
    /\ acts = <<>>
    /\ issued = NoneIssued
    /\ returned = NoneReturned
    /\ fetchIn = Outcome("reject", NullNum, 1, "", NullNum, NullStr, NullStr)
    /\ fetchOut = NoFetch
    /\ aggRuns = <<>>
    /\ aggOut = <<>>
    /\ arrays = ArraysOf(ENDPOINTS)
    /\ shuffledRef = "none"
    /\ randomIndices = <<>>
    \* the invocation before its first statement, and its request
    /\ \E kind \in HandlerKinds :
        /\ handler =
             [kind |-> kind, pc |-> "start", client |-> FALSE, endCalls |-> 0,
              end |-> "none", held |-> FALSE, unhandled |-> FALSE,
              results |-> <<>>, errorMsg |-> NullStr, timeMs |-> 0]
        /\ request \in
             {EndpointRequest(MountedAt(kind), NullText, "env", binding, waitUntil,
                              outcome, NullText) :
                binding \in IF kind = "executeDbQuery" THEN {"connection"}
                            ELSE {"connection", "missing", "invalid"},
                waitUntil \in IF kind = "executeDbQuery" THEN {FALSE} ELSE BOOLEAN,
                outcome \in HyperdriveOutcomes}
    /\ response = Idle

\* The handler is invoked and runs to its first await: the binding is
\* checked, the connection string is read and the client is created.
Invoke ==
    /\ handler.kind \in HandlerKinds
    /\ handler.pc = "start"
    /\ IF request.binding = "missing"
       THEN /\ handler' = [handler EXCEPT !.pc = "threw"]
            /\ response' =
                 SvelteError(500,
                    IF handler.kind = "us-east"
                    THEN "Configuration Error: US East Non-Cached DB binding not found."
                    ELSE "Configuration Error: "
                            \o ENDPOINT_CONFIG[MountedAt(handler.kind)].displayName
                            \o " binding not found.")
       ELSE IF request.binding = "invalid"
       THEN LET h == [handler EXCEPT
                        !.pc = "returned",
                        !.errorMsg = "Invalid or missing connection string in binding."]
            IN  /\ handler' = h
                /\ response' = ResponseOf(h, request)
       ELSE /\ handler' = [handler EXCEPT !.pc = "query", !.client = TRUE]
            /\ UNCHANGED response
    /\ UNCHANGED <<variant, orchVars, fetchVars, aggVars, shuffleVars, request>>

\* The query settles: the rest of the try block or the catch block runs,
\* and the finally block calls end() on the client.
QuerySettles ==
    /\ handler.kind \in HandlerKinds
    /\ handler.pc = "query"
    /\ LET o == request.outcome
           settled ==
              CASE o.kind = "rows" ->
                      [handler EXCEPT !.results = <<City>>, !.timeMs = o.timeMs]
                [] o.kind = "empty" ->
                      [handler EXCEPT !.results = <<>>, !.timeMs = o.timeMs]
                [] OTHER ->
                      [handler EXCEPT
                          !.results = <<>>,
                          !.errorMsg =
                              IF handler.kind = "executeDbQuery"
                              THEN OrElse(o.message, "An unknown error occurred")
                              ELSE QueryError(o.message)]
           ending == [settled EXCEPT !.endCalls = @ + 1, !.end = "pending"]
       IN  IF handler.kind = "executeDbQuery"
           THEN /\ handler' = [ending EXCEPT !.pc = "awaitEnd"]
                /\ UNCHANGED response
           ELSE IF request.waitUntil
           THEN LET h == [ending EXCEPT !.pc = "returned", !.held = TRUE]
                IN  /\ handler' = h
                    /\ response' = ResponseOf(h, request)
           ELSE /\ handler' = [ending EXCEPT !.pc = "race"]
                /\ UNCHANGED response
    /\ UNCHANGED <<variant, orchVars, fetchVars, aggVars, shuffleVars, request>>

\* end() settles.
EndSettles(settled) ==
    /\ handler.kind \in HandlerKinds
    /\ handler.end = "pending"
    /\ LET ended == [handler EXCEPT !.end = settled]
       IN  IF handler.kind = "executeDbQuery"
           THEN \* try { await sql.end(...) } catch (closeErr) { if (!errorMsg) ... }
                LET h == [ended EXCEPT
                            !.pc = "returned",
                            !.errorMsg =
                                IF settled = "rejected" /\ (@ = NullStr \/ @ = "")
                                THEN "Error closing DB connection: close failed"
                                ELSE @]
                IN  /\ handler' = h
                    /\ response' = ResponseOf(h, request)
           ELSE LET closed == ClosePromise(settled)
                IN  IF handler.pc = "race"
                    THEN IF closed = "resolved" \/ handler.kind = "endpoint"
                         THEN \* the race is won by closePromise; the try
                              \* around the race of [endpoint] catches
                              /\ handler' = [ended EXCEPT !.pc = "returned"]
                              /\ response' = ResponseOf(ended, request)
                         ELSE \* await Promise.race(...) throws in finally
                              /\ handler' = [ended EXCEPT !.pc = "threw"]
                              /\ response' = SvelteError(500, "Internal Error")
                    ELSE /\ handler' =
                            [ended EXCEPT
                                !.unhandled = @ \/ (handler.held /\ closed = "rejected")]
                         /\ UNCHANGED response
    /\ UNCHANGED <<variant, orchVars, fetchVars, aggVars, shuffleVars, request>>

\* The timer of 100 ms wins the race: the response is returned while end()
\* is still pending.
RaceTimer ==
    /\ handler.kind \in HandlerKinds
    /\ handler.pc = "race"
    /\ handler' = [handler EXCEPT !.pc = "returned"]
    /\ response' = ResponseOf(handler, request)
    /\ UNCHANGED <<variant, orchVars, fetchVars, aggVars, shuffleVars, request>>

NextClose ==
    \/ Invoke
    \/ QuerySettles
    \/ \E settled \in {"resolved", "rejected"} : EndSettles(settled)
    \/ RaceTimer

\* the query settles, timers fire and end({ timeout: 5 }) settles
SpecClose == InitClose /\ [][NextClose]_vars /\ WF_vars(NextClose)

----------------------------------------------------------------------------
(* Properties of the closing of the client (specification SpecClose) *)

EndInitiated == handler.pc \in {"race", "awaitEnd", "returned", "threw"}

\* a client was created and the query has settled: end() was called once;
\* no client, no call
EndCalledOnce ==
    /\ handler.endCalls <= 1
    /\ handler.endCalls = 1 <=> (handler.client /\ EndInitiated)

\* the invocation is over and returned JSON with status 200
ReturnedJson ==
    /\ handler.pc = "returned"
    /\ response.kind = "json"
    /\ response.status = 200

\* C26: every invocation that created a postgres client initiates end() on
\* it exactly once, after a query that succeeded and after one that failed,
\* and still returns its JSON response; a failure of end() is never an
\* exception of the handler nor an unhandled rejection.
C26_ClientClosedOnce ==
    /\ [](handler.kind \in HandlerKinds =>
            /\ EndCalledOnce
            /\ handler.client => handler.pc # "threw"
            /\ ~handler.unhandled
            /\ handler.pc = "returned" => ReturnedJson)
    /\ (handler.kind \in HandlerKinds /\ handler.pc = "query")
            ~> (ReturnedJson /\ handler.endCalls = 1)

\* the query failed, the response was returned through waitUntil, and end()
\* rejected afterwards
C26_Witness ==
    /\ handler.kind = "us-east"
    /\ request.outcome.kind = "throws"
    /\ handler.held
    /\ handler.end = "rejected"
    /\ handler.endCalls = 1
    /\ ReturnedJson
    /\ response.body.error = "connection refused"

====
